---- MODULE Spec2Model ----
(***************************************************************************)
(* Provider aggregation engine of net-comparison: the five provider        *)
(* adapters (WebWunder, ByteMe, PingPerfect, VerbynDich, ServusSpeed),     *)
(* their tenacity retry wrappers, their semaphores, and the aggregator.    *)
(*                                                                         *)
(* Three specifications share the operators that model the code:           *)
(*   SpecCall  one tenacity-wrapped upstream call, attempt by attempt;     *)
(*   Spec      one get_offers call of one adapter, with its sub-requests;  *)
(*   SpecAgg   the aggregator's gather over the adapters.                  *)
(***************************************************************************)
EXTENDS Integers, Sequences, FiniteSets, TLC

VARIABLES
    \* ---- one get_offers call of one adapter (Spec)
    adapter,    \* the adapter whose get_offers runs
    pc,         \* get_offers: "start", "fetch", "gather", "returned", "raised"
    sem,        \* free permits of the asyncio.Semaphore
    waiting,    \* sub-request tasks blocked in `async with semaphore`
    active,     \* attempt number -> number of sub-requests at that attempt
    results,    \* result kind -> number of finished sub-requests with it
    offers,     \* length of the list get_offers returned
    exc,        \* the exception get_offers raised, or "none"
    served,     \* sub-requests the upstream answered 200 with a valid record
    refused,    \* sub-requests the upstream answered last with a failure status
    product_ids, \* ServusSpeed: length of the phase-1 list (0 before it)
    \* ---- one retried upstream call (SpecCall)
    call,       \* the tenacity-wrapped method, or "none"
    att,        \* attempt number of the call (0 before the first)
    cstate,     \* "idle", "request", "backoff", "returned", "raised"
    answer,     \* the upstream's answer to the latest attempt
    ret,        \* what the call returned or raised
    tried,      \* answer -> number of attempts the upstream answered with it
    \* ---- the aggregator's get_offers endpoint (SpecAgg)
    agg_pc,             \* "idle", "start", "gather", "returned"
    providers_to_fetch, \* the adapters whose get_offers is gathered, in order
    fetched,            \* per gathered adapter: pending, raised, or a list of n
    all_offers,         \* the offers of the response, each <<adapter, number>>
    overtaken,          \* an adapter finished while one invoked earlier had not
    \* ---- one call of a function of the program (SpecDiscount, ...)
    op,         \* the function called, or "none"
    args,       \* its arguments
    result      \* what it returned or raised; kind "none" before the call

callVars    == <<call, att, cstate, answer, ret, tried>>
adapterVars == <<adapter, pc, sem, waiting, active, results, offers, exc, served,
                 refused, product_ids>>
aggVars     == <<agg_pc, providers_to_fetch, fetched, all_offers, overtaken>>
fnVars      == <<op, args, result>>
vars        == <<adapter, pc, sem, waiting, active, results, offers, exc, served,
                 refused, product_ids,
                 call, att, cstate, answer, ret, tried,
                 agg_pc, providers_to_fetch, fetched, all_offers, overtaken,
                 op, args, result>>

(***************************************************************************)
(* The adapters and their tenacity-wrapped methods.                        *)
(***************************************************************************)
Adapters == {"WebWunder", "ByteMe", "PingPerfect", "VerbynDich", "ServusSpeed"}

Calls == {"WebWunder._fetch_products", "ByteMe._fetch_products",
          "PingPerfect._fetch_products", "VerbynDich._get_offer",
          "ServusSpeed._get_offer", "ServusSpeed._get_available_products"}

(***************************************************************************)
(* What the upstream may answer to one attempt.                            *)
(*   200_ok          status 200, well-formed payload holding a record      *)
(*   200_degenerate  status 200, a record that parses but on which         *)
(*                   normalize_offer raises (a division by zero in the     *)
(*                   discount computation, a NormalizedOffer field that    *)
(*                   does not validate)                                    *)
(*   200_empty       status 200, well-formed payload holding no record     *)
(*   200_malformed   status 200, payload that fails to parse or lacks a    *)
(*                   mandatory field                                       *)
(*   429             rate limited                                          *)
(*   500             any other failure status (>= 400)                     *)
(*   transport       aiohttp.ClientConnectionError or a timeout            *)
(***************************************************************************)
Answers == {"200_ok", "200_degenerate", "200_empty", "200_malformed",
            "429", "500", "transport"}

FailureStatus == {"429", "500"}

\* What a call hands back: a value kind, or the exception it raises.
ResultKinds == {"record", "degenerate", "norecord", "malformed", "empty",
                "RetryError"}

(***************************************************************************)
(* Program constants.                                                      *)
(***************************************************************************)
MAX_PAGE == 17
VerbynDich_CONCURRENCY_LIMIT == 5
ServusSpeed_CONCURRENCY_LIMIT == 10
WebWunder_CONNCURENCY_LMIT == 5
WebWunder_CONNECTION_TYPES == <<"DSL", "CABLE", "FIBER", "MOBILE">>
WebWunder_INSTALLATION == <<TRUE, FALSE>>

\* The phase-1 list of ServusSpeed holds at most this many identifiers.
MaxProducts == 11

(***************************************************************************)
(* tenacity: @retry(stop=stop_after_attempt(n), wait=wait_exponential(..), *)
(* retry=retry_if_exception_type(aiohttp.ClientResponseError)).            *)
(***************************************************************************)
WebWunder_stop_after_attempt == 10
ByteMe_stop_after_attempt == 10
PingPerfect_stop_after_attempt == 10
VerbynDich_stop_after_attempt == 3
ServusSpeed_get_offer_stop_after_attempt == 3
ServusSpeed_get_available_products_stop_after_attempt == 10

stop_after_attempt(c) ==
    CASE c = "WebWunder._fetch_products"   -> WebWunder_stop_after_attempt
      [] c = "ByteMe._fetch_products"      -> ByteMe_stop_after_attempt
      [] c = "PingPerfect._fetch_products" -> PingPerfect_stop_after_attempt
      [] c = "VerbynDich._get_offer"       -> VerbynDich_stop_after_attempt
      [] c = "ServusSpeed._get_offer"      -> ServusSpeed_get_offer_stop_after_attempt
      [] c = "ServusSpeed._get_available_products"
                            -> ServusSpeed_get_available_products_stop_after_attempt

\* The largest attempt number any call can reach.
MaxStop == CHOOSE m \in {stop_after_attempt(c) : c \in Calls} :
               \A c \in Calls : stop_after_attempt(c) <= m

AttemptNumbers == 1..MaxStop

retry_if_exception_type(outcome) == outcome = "ClientResponseError"

\* A wrapper whose stop condition never holds.
tenacity_retry_without_stop(c, n, outcome) ==
    IF retry_if_exception_type(outcome) THEN "retry" ELSE outcome

(***************************************************************************)
(* tenacity's decision after attempt number n of call c ended with         *)
(* `outcome` (a value kind or the exception the method let escape):        *)
(* "retry" (sleep wait_exponential, call again), "RetryError" (attempts    *)
(* exhausted: reraise is not set, so tenacity raises RetryError), or the   *)
(* value the method returned.                                              *)
(***************************************************************************)
tenacity_retry(c, n, outcome) ==
    IF retry_if_exception_type(outcome)
    THEN IF n >= stop_after_attempt(c) THEN "RetryError" ELSE "retry"
    ELSE outcome

\* Except clauses that raise a transport error again, as they do a
\* ClientResponseError, so that tenacity sees a retryable exception.
except_clauses_transport_raised(raised) ==
    CASE raised = "ClientResponseError" -> "ClientResponseError"
      [] raised = "ClientError"         -> "ClientResponseError"
      [] raised = "Exception"           -> "empty"
      [] OTHER                          -> raised

(***************************************************************************)
(* The except clauses every request method but phase 1 of ServusSpeed      *)
(* ends with, in source order: ClientResponseError is logged and raised    *)
(* again, any other aiohttp.ClientError and any other Exception are logged *)
(* and turned into the method's empty value ([], {}, "").                  *)
(***************************************************************************)
except_clauses(raised) ==
    CASE raised = "ClientResponseError" -> "ClientResponseError"
      [] raised = "ClientError"         -> "empty"
      [] raised = "Exception"           -> "empty"
      [] OTHER                          -> raised

\* ByteMe._fetch_products, the try block: GET, status check, CSV parse.
ByteMe_try(a) ==
    CASE a = "transport"      -> "ClientError"
      [] a \in FailureStatus  -> "ClientResponseError"   \* raise_for_status
      [] a = "200_malformed"  -> "Exception"    \* ValueError of _parse_csv_to_products
      [] a = "200_empty"      -> "empty"
      [] a = "200_degenerate" -> "degenerate"
      [] a = "200_ok"         -> "record"

ByteMe_fetch_products(a) == except_clauses(ByteMe_try(a))

\* PingPerfect._fetch_products, the try block: POST, status check, JSON, model.
PingPerfect_try(a) ==
    CASE a = "transport"      -> "ClientError"
      [] a \in FailureStatus  -> "ClientResponseError"
      [] a = "200_malformed"  -> "Exception"
      [] a = "200_empty"      -> "empty"
      [] a = "200_degenerate" -> "degenerate"
      [] a = "200_ok"         -> "record"

PingPerfect_fetch_products(a) == except_clauses(PingPerfect_try(a))

\* WebWunder._fetch_products, the try block: POST, status check, the response
\* text is handed back unparsed in a WebWunderFetchReturn.
WebWunder_try(a) ==
    CASE a = "transport"      -> "ClientError"
      [] a \in FailureStatus  -> "ClientResponseError"
      [] a = "200_malformed"  -> "malformed"
      [] a = "200_empty"      -> "norecord"
      [] a = "200_degenerate" -> "degenerate"
      [] a = "200_ok"         -> "record"

WebWunder_fetch_products(a) == except_clauses(WebWunder_try(a))

\* VerbynDich.normalize_offer: None for a page flagged invalid or lacking a
\* field; its own try/except turns every exception into None.
VerbynDich_normalize_offer(a) ==
    IF a = "200_ok" THEN "record" ELSE "empty"

\* VerbynDich._get_offer, the try block: only 429 is raised, any other
\* status but 200 returns {}.
VerbynDich_try(a) ==
    CASE a = "transport"     -> "ClientError"
      [] a = "429"           -> "ClientResponseError"
      [] a \in FailureStatus -> "empty"
      [] a = "200_malformed" -> "Exception"      \* response.json() fails
      [] OTHER               -> VerbynDich_normalize_offer(a)

VerbynDich_get_offer(a) == except_clauses(VerbynDich_try(a))

\* ServusSpeed._map_json_to_product: ValueError when the product key is
\* missing or empty, or the record does not validate.
ServusSpeed_map_json_to_product(a) ==
    CASE a = "200_ok"         -> "record"
      [] a = "200_degenerate" -> "degenerate"
      [] OTHER                -> "Exception"

\* A detail fetch that calls raise_for_status for every failure status.
ServusSpeed_get_offer_try_raise_for_status(a) ==
    CASE a = "transport"     -> "ClientError"
      [] a \in FailureStatus -> "ClientResponseError"
      [] OTHER               -> ServusSpeed_map_json_to_product(a)

\* ServusSpeed._get_offer, the try block.
ServusSpeed_get_offer_try(a) ==
    CASE a = "transport"     -> "ClientError"
      [] a = "429"           -> "ClientResponseError"
      [] a \in FailureStatus -> "empty"
      [] OTHER               -> ServusSpeed_map_json_to_product(a)

ServusSpeed_get_offer(a) == except_clauses(ServusSpeed_get_offer_try(a))

\* ServusSpeed._get_available_products: raise_for_status first; the only
\* other clause is `except Exception`, which returns an empty list.
ServusSpeed_get_available_products_try(a) ==
    CASE a = "transport"     -> "ClientError"
      [] a \in FailureStatus -> "ClientResponseError"
      [] a = "200_malformed" -> "Exception"
      [] a = "200_empty"     -> "empty"
      [] OTHER               -> "record"

ServusSpeed_get_available_products(a) ==
    LET raised == ServusSpeed_get_available_products_try(a)
    IN  CASE raised = "ClientResponseError" -> "ClientResponseError"
          [] raised \in {"ClientError", "Exception"} -> "empty"
          [] OTHER -> raised

\* The answers that make sense for a call: the phase-1 list has no prices.
AnswersOf(c) ==
    IF c = "ServusSpeed._get_available_products"
    THEN Answers \ {"200_degenerate"} ELSE Answers

\* One attempt of call c that the upstream answers with a.
Invoke(c, a) ==
    CASE c = "WebWunder._fetch_products"   -> WebWunder_fetch_products(a)
      [] c = "ByteMe._fetch_products"      -> ByteMe_fetch_products(a)
      [] c = "PingPerfect._fetch_products" -> PingPerfect_fetch_products(a)
      [] c = "VerbynDich._get_offer"       -> VerbynDich_get_offer(a)
      [] c = "ServusSpeed._get_offer"      -> ServusSpeed_get_offer(a)
      [] c = "ServusSpeed._get_available_products"
                                           -> ServusSpeed_get_available_products(a)

\* Attempt n of call c, answered a, as the caller of the wrapped method
\* sees it, tabulated for every call, attempt number and answer.
AttemptTable ==
    [c \in Calls |-> [n \in AttemptNumbers |-> [a \in AnswersOf(c) |->
        tenacity_retry(c, n, Invoke(c, a))]]]

Attempt(c, n, a) == AttemptTable[c][n][a]

(***************************************************************************)
(* Spec: one get_offers call of one adapter.                               *)
(*                                                                         *)
(* The sub-requests of one adapter run the same coroutine and differ only  *)
(* in their payload, so they are counted per local state rather than       *)
(* named: `waiting` are blocked on the semaphore, active[n] are inside     *)
(* attempt n of the wrapped method, results[k] have finished with k.  The  *)
(* backoff sleep between two attempts is part of the retry step: a         *)
(* sub-request keeps its permit while it sleeps.                           *)
(***************************************************************************)
NoTasks   == [n \in AttemptNumbers |-> 0]
NoResults == [k \in ResultKinds |-> 0]

IdleAdapter ==
    /\ adapter = "none" /\ pc = "idle" /\ sem = 0 /\ waiting = 0
    /\ active = NoTasks /\ results = NoResults
    /\ offers = 0 /\ exc = "none" /\ served = 0 /\ refused = 0
    /\ product_ids = 0

IdleCall ==
    /\ call = "none" /\ att = 0 /\ cstate = "idle"
    /\ answer = "none" /\ ret = "none"
    /\ tried = [a \in Answers |-> 0]

IdleAgg ==
    /\ agg_pc = "idle" /\ providers_to_fetch = <<>>
    /\ fetched = <<>> /\ all_offers = <<>>
    /\ overtaken = FALSE

IdleFn ==
    /\ op = "none" /\ args = [kind |-> "none"] /\ result = [kind |-> "none"]

Init ==
    /\ adapter \in Adapters
    /\ pc = "start" /\ sem = 0 /\ waiting = 0
    /\ active = NoTasks /\ results = NoResults
    /\ offers = 0 /\ exc = "none" /\ served = 0 /\ refused = 0
    /\ product_ids = 0
    /\ IdleCall
    /\ IdleAgg
    /\ IdleFn

RECURSIVE SumTo(_, _)
SumTo(f, n) == IF n = 0 THEN 0 ELSE f[n] + SumTo(f, n - 1)

\* Sub-requests inside the wrapped method: a request sent or a retry pending.
InFlight == SumTo(active, MaxStop)

\* The wrapped method the running coroutines are in.
CurrentCall ==
    CASE adapter = "WebWunder"   -> "WebWunder._fetch_products"
      [] adapter = "ByteMe"      -> "ByteMe._fetch_products"
      [] adapter = "PingPerfect" -> "PingPerfect._fetch_products"
      [] adapter = "VerbynDich"  -> "VerbynDich._get_offer"
      [] adapter = "ServusSpeed" ->
            IF pc = "fetch" THEN "ServusSpeed._get_available_products"
                            ELSE "ServusSpeed._get_offer"

\* Page numbers that start at one.
VerbynDich_pages_from_one == [i \in 1..(MAX_PAGE - 1) |-> i]

\* for page in range(0, self.MAX_PAGE): the page number of each task.
VerbynDich_pages == [i \in 1..MAX_PAGE |-> i - 1]

\* The adapters whose sub-requests run inside `async with semaphore`.
UsesSemaphore(ad) == ad \in {"VerbynDich", "ServusSpeed"}

\* asyncio.gather(*tasks, return_exceptions=...) of the adapter.
return_exceptions(ad) == ad \in {"VerbynDich", "ServusSpeed"}

ConcurrencyLimit(ad) ==
    CASE ad = "VerbynDich"  -> VerbynDich_CONCURRENCY_LIMIT
      [] ad = "ServusSpeed" -> ServusSpeed_CONCURRENCY_LIMIT
      [] ad = "WebWunder"   -> WebWunder_CONNCURENCY_LMIT
      [] OTHER              -> 0

(***************************************************************************)
(* get_offers up to its first await.  ByteMe, PingPerfect and ServusSpeed  *)
(* await one wrapped call; VerbynDich creates the semaphore and one task   *)
(* per page; WebWunder creates a semaphore it never hands to a task and    *)
(* gathers _fetch_products for every (installation, connection type).      *)
(***************************************************************************)
get_offers ==
    /\ pc = "start"
    /\ CASE adapter \in {"ByteMe", "PingPerfect", "ServusSpeed"} ->
                /\ pc' = "fetch"
                /\ active' = [active EXCEPT ![1] = 1]
                /\ UNCHANGED <<sem, waiting>>
         [] adapter = "VerbynDich" ->
                /\ pc' = "gather"
                /\ sem' = ConcurrencyLimit(adapter)
                /\ waiting' = Len(VerbynDich_pages)
                /\ UNCHANGED active
         [] adapter = "WebWunder" ->
                /\ pc' = "gather"
                /\ sem' = ConcurrencyLimit(adapter)
                /\ active' = [active EXCEPT ![1] =
                       Len(WebWunder_INSTALLATION) * Len(WebWunder_CONNECTION_TYPES)]
                /\ UNCHANGED waiting
    /\ UNCHANGED <<adapter, product_ids, results, offers, exc, served, refused>>
    /\ UNCHANGED <<callVars, aggVars, fnVars>>

\* A sub-request that enters the wrapped method without a permit.
acquire_without_permit == TRUE

\* `async with semaphore:` a blocked sub-request takes a free permit and
\* enters the wrapped method.
acquire_ok == sem > 0

Acquire ==
    /\ pc = "gather" /\ UsesSemaphore(adapter)
    /\ waiting > 0
    /\ acquire_ok
    /\ sem' = sem - 1
    /\ waiting' = waiting - 1
    /\ active' = [active EXCEPT ![1] = @ + 1]
    /\ UNCHANGED <<adapter, product_ids, pc, results, offers, exc, served, refused>>
    /\ UNCHANGED <<callVars, aggVars, fnVars>>

\* An attempt fails with ClientResponseError and tenacity calls again.
Retry ==
    /\ pc \in {"fetch", "gather"}
    /\ \E n \in AttemptNumbers, a \in AnswersOf(CurrentCall) :
          /\ active[n] > 0
          /\ Attempt(CurrentCall, n, a) = "retry"
          /\ active' = [active EXCEPT ![n] = @ - 1, ![n + 1] = @ + 1]
    /\ UNCHANGED <<adapter, product_ids, pc, sem, waiting, results, offers, exc, served, refused>>
    /\ UNCHANGED <<callVars, aggVars, fnVars>>

\* A sub-request that leaves the wrapped method and keeps its permit.
release_kept(ad, s) == s

\* A sub-request that hands back one permit more than it took.
release_twice(ad, s) == IF UsesSemaphore(ad) THEN s + 2 ELSE s

\* Permits free after a sub-request leaves `async with semaphore`.
release(ad, s) == IF UsesSemaphore(ad) THEN s + 1 ELSE s

(***************************************************************************)
(* A sub-request of a gather ends: the wrapped method returned a value or  *)
(* tenacity raised RetryError.  Leaving `async with` releases the permit   *)
(* on both paths.  With return_exceptions=False (WebWunder) the exception  *)
(* leaves gather, and get_offers, at once.                                 *)
(***************************************************************************)
TaskDone ==
    /\ pc = "gather"
    /\ \E n \in AttemptNumbers, a \in AnswersOf(CurrentCall) :
          LET r == Attempt(CurrentCall, n, a) IN
          /\ active[n] > 0
          /\ r # "retry"
          /\ active' = [active EXCEPT ![n] = @ - 1]
          /\ results' = [results EXCEPT ![r] = @ + 1]
          /\ sem' = release(adapter, sem)
          /\ served' = IF a = "200_ok" THEN served + 1 ELSE served
          /\ refused' = IF a \in FailureStatus THEN refused + 1 ELSE refused
          /\ IF r = "RetryError" /\ ~return_exceptions(adapter)
             THEN pc' = "raised" /\ exc' = "RetryError"
             ELSE UNCHANGED <<pc, exc>>
    /\ UNCHANGED <<adapter, product_ids, waiting, offers>>
    /\ UNCHANGED <<callVars, aggVars, fnVars>>

(***************************************************************************)
(* The loop over the gathered results, per adapter: `raises` holds the     *)
(* exceptions the loop may end with (which one depends on the order of the *)
(* results), `offers` the length of the list it builds otherwise.          *)
(***************************************************************************)
\* VerbynDich: an exception is logged, a falsy result skipped, the rest kept.
VerbynDich_process(res) ==
    [raises |-> {}, offers |-> res["record"]]

\* A result loop that does not skip the falsy results.
ServusSpeed_process_keeps_empty(res) ==
    [raises |-> IF res["degenerate"] > 0 THEN {"NormalizationError"} ELSE {},
     offers |-> res["record"] + res["empty"]]

\* ServusSpeed: as VerbynDich, but every kept result goes through
\* normalize_offer, outside any try.
ServusSpeed_process(res) ==
    [raises |-> IF res["degenerate"] > 0 THEN {"NormalizationError"} ELSE {},
     offers |-> res["record"]]

\* WebWunder: an empty response text is skipped, the rest is parsed
\* (ET.fromstring) and each product normalized, outside any try;
\* normalize_offer builds NormalizedOffer without its required
\* price_details, a ValidationError for every product.
WebWunder_process(res) ==
    [raises |-> (IF res["malformed"] > 0 THEN {"ParseError"} ELSE {}) \cup
                (IF res["degenerate"] > 0 THEN {"NormalizationError"} ELSE {}) \cup
                (IF res["record"] > 0 THEN {"ValidationError"} ELSE {}),
     offers |-> 0]

Process(ad, res) ==
    CASE ad = "VerbynDich"  -> VerbynDich_process(res)
      [] ad = "ServusSpeed" -> ServusSpeed_process(res)
      [] ad = "WebWunder"   -> WebWunder_process(res)

\* gather returned every result: the rest of get_offers.
GatherDone ==
    /\ pc = "gather"
    /\ waiting = 0 /\ InFlight = 0
    /\ LET p == Process(adapter, results) IN
          IF p.raises = {}
          THEN pc' = "returned" /\ offers' = p.offers /\ exc' = exc
          ELSE pc' = "raised" /\ exc' \in p.raises /\ offers' = offers
    /\ UNCHANGED <<adapter, product_ids, sem, waiting, active, results, served, refused>>
    /\ UNCHANGED <<callVars, aggVars, fnVars>>

(***************************************************************************)
(* ByteMe and PingPerfect: the one wrapped call ends, and get_offers with  *)
(* it.  RetryError is not caught; `if not products: return []`; every      *)
(* product goes through normalize_offer outside any try.                   *)
(***************************************************************************)
single_call_rest(r) ==
    CASE r = "RetryError" -> [pc |-> "raised",   exc |-> "RetryError", offers |-> 0]
      [] r = "degenerate" -> [pc |-> "raised",   exc |-> "NormalizationError", offers |-> 0]
      [] r = "record"     -> [pc |-> "returned", exc |-> "none", offers |-> 1]
      [] OTHER            -> [pc |-> "returned", exc |-> "none", offers |-> 0]

FetchDone ==
    /\ pc = "fetch" /\ adapter \in {"ByteMe", "PingPerfect"}
    /\ \E n \in AttemptNumbers, a \in AnswersOf(CurrentCall) :
          LET r == Attempt(CurrentCall, n, a)
              k == single_call_rest(r) IN
          /\ active[n] > 0
          /\ r # "retry"
          /\ active' = [active EXCEPT ![n] = @ - 1]
          /\ pc' = k.pc /\ exc' = k.exc /\ offers' = k.offers
    /\ UNCHANGED <<adapter, product_ids, sem, waiting, results, served, refused>>
    /\ UNCHANGED <<callVars, aggVars, fnVars>>

\* A task list that leaves out the first identifier.
ServusSpeed_tasks_without_first(ids) == [i \in 1..(ids - 1) |-> i + 1]

\* tasks = [_get_product_with_rate_limit(product) for product in product_ids]:
\* the place in the phase-1 list of the identifier each task fetches.
ServusSpeed_tasks(ids) == [i \in 1..ids |-> i]

(***************************************************************************)
(* ServusSpeed: phase 1 ends.  RetryError is not caught; an empty list     *)
(* returns []; otherwise the semaphore is created and one task per         *)
(* identifier is gathered.                                                 *)
(***************************************************************************)
Phase1Done ==
    /\ pc = "fetch" /\ adapter = "ServusSpeed"
    /\ \E n \in AttemptNumbers, a \in AnswersOf(CurrentCall) :
          LET r == Attempt(CurrentCall, n, a) IN
          /\ active[n] > 0
          /\ r # "retry"
          /\ active' = [active EXCEPT ![n] = @ - 1]
          /\ CASE r = "RetryError" ->
                    /\ pc' = "raised" /\ exc' = "RetryError"
                    /\ UNCHANGED <<sem, waiting, product_ids>>
               [] r = "record" ->
                    /\ pc' = "gather" /\ exc' = exc
                    /\ sem' = ConcurrencyLimit(adapter)
                    /\ product_ids' \in 1..MaxProducts
                    /\ waiting' = Len(ServusSpeed_tasks(product_ids'))
               [] OTHER ->
                    /\ pc' = "returned" /\ exc' = exc
                    /\ UNCHANGED <<sem, waiting, product_ids>>
    /\ UNCHANGED <<adapter, results, offers, served, refused>>
    /\ UNCHANGED <<callVars, aggVars, fnVars>>

Next ==
    \/ get_offers
    \/ Acquire
    \/ Retry
    \/ TaskDone
    \/ GatherDone
    \/ FetchDone
    \/ Phase1Done

Spec == Init /\ [][Next]_vars

(***************************************************************************)
(* SpecCall: one call of a tenacity-wrapped method, attempt by attempt.    *)
(* `tried` counts the upstream's answers, so that what the wrapper did can *)
(* be compared with what the upstream was asked.                           *)
(***************************************************************************)
InitCall ==
    /\ call \in Calls
    /\ att = 0 /\ cstate = "idle"
    /\ answer = "none" /\ ret = "none"
    /\ tried = [a \in Answers |-> 0]
    /\ IdleAdapter
    /\ IdleAgg
    /\ IdleFn

\* The caller awaits the wrapped method: tenacity starts attempt 1.
CallInvoke ==
    /\ cstate = "idle"
    /\ att' = 1
    /\ cstate' = "request"
    /\ UNCHANGED <<call, answer, ret, tried>>
    /\ UNCHANGED <<adapterVars, aggVars, fnVars>>

\* The upstream answers the attempt; the method body, its except clauses
\* and tenacity decide what follows.
CallAnswer ==
    /\ cstate = "request"
    /\ \E a \in AnswersOf(call) :
          LET r == Attempt(call, att, a) IN
          /\ answer' = a
          /\ tried' = [tried EXCEPT ![a] = @ + 1]
          /\ CASE r = "retry"      -> cstate' = "backoff"  /\ ret' = ret
               [] r = "RetryError" -> cstate' = "raised"   /\ ret' = r
               [] OTHER            -> cstate' = "returned" /\ ret' = r
    /\ UNCHANGED <<call, att>>
    /\ UNCHANGED <<adapterVars, aggVars, fnVars>>

\* wait_exponential has elapsed: the next attempt.
CallBackoffDone ==
    /\ cstate = "backoff"
    /\ att' = att + 1
    /\ cstate' = "request"
    /\ UNCHANGED <<call, answer, ret, tried>>
    /\ UNCHANGED <<adapterVars, aggVars, fnVars>>

NextCall == CallInvoke \/ CallAnswer \/ CallBackoffDone

SpecCall == InitCall /\ [][NextCall]_vars

(***************************************************************************)
(* SpecSem: Spec restricted to the two adapters whose sub-requests run     *)
(* under a semaphore (VerbynDich, ServusSpeed).                            *)
(***************************************************************************)
InitSem == Init /\ UsesSemaphore(adapter)

NextSem ==
    \/ get_offers
    \/ Acquire
    \/ Retry
    \/ TaskDone
    \/ GatherDone
    \/ Phase1Done

SpecSem == InitSem /\ [][NextSem]_vars

(***************************************************************************)
(* SpecAgg: the aggregator's get_offers endpoint.  main.py registers one   *)
(* provider and leaves room for the others; the registry modelled is that  *)
(* of dependencies/providers.py, which holds the five adapters.  The query *)
(* either names one provider or names none, and then all are selected.     *)
(* get_cached_offers returns None, so every                                *)
(* selected adapter is fetched.  An adapter's get_offers either returns a  *)
(* list or raises, as in Spec; its offers are taken to validate against    *)
(* InternetOffer.                                                          *)
(***************************************************************************)
providers == <<"WebWunder", "ByteMe", "PingPerfect", "VerbynDich", "ServusSpeed">>

\* An adapter returns at most this many offers to the aggregator.
MaxOffers == 2

\* gather with its default, return_exceptions=False.
main_return_exceptions_default == FALSE

\* asyncio.gather(*tasks, return_exceptions=True) of the endpoint.
main_return_exceptions == TRUE

\* What gather holds for one adapter.
Pending     == [kind |-> "pending", n |-> 0]
Raised      == [kind |-> "raised",  n |-> 0]
Returned(n) == [kind |-> "list",    n |-> n]

InitAgg ==
    /\ agg_pc = "start"
    /\ providers_to_fetch \in
          {providers} \cup {<<providers[i]>> : i \in 1..Len(providers)}
    /\ fetched = <<>>
    /\ all_offers = <<>>
    /\ overtaken = FALSE
    /\ IdleAdapter
    /\ IdleCall
    /\ IdleFn

\* The endpoint up to `await asyncio.gather(...)`: one task per adapter.
main_get_offers ==
    /\ agg_pc = "start"
    /\ agg_pc' = "gather"
    /\ fetched' = [i \in 1..Len(providers_to_fetch) |-> Pending]
    /\ UNCHANGED <<providers_to_fetch, all_offers, overtaken>>
    /\ UNCHANGED <<adapterVars, callVars, fnVars>>

\* An adapter's get_offers returns a list of n offers.
AdapterReturns ==
    /\ agg_pc = "gather"
    /\ \E i \in 1..Len(fetched), n \in 0..MaxOffers :
          /\ fetched[i] = Pending
          /\ fetched' = [fetched EXCEPT ![i] = Returned(n)]
          /\ overtaken' = (overtaken \/ \E j \in 1..(i - 1) : fetched[j] = Pending)
    /\ UNCHANGED <<agg_pc, providers_to_fetch, all_offers>>
    /\ UNCHANGED <<adapterVars, callVars, fnVars>>

\* An adapter's get_offers raises.  gather keeps the exception as that
\* adapter's result; were return_exceptions not set, the exception would
\* leave gather and the endpoint's `except Exception` answer with status 500.
AdapterRaises ==
    /\ agg_pc = "gather"
    /\ \E i \in 1..Len(fetched) :
          /\ fetched[i] = Pending
          /\ fetched' = [fetched EXCEPT ![i] = Raised]
          /\ overtaken' = (overtaken \/ \E j \in 1..(i - 1) : fetched[j] = Pending)
    /\ agg_pc' = IF main_return_exceptions THEN agg_pc ELSE "failed"
    /\ UNCHANGED <<providers_to_fetch, all_offers>>
    /\ UNCHANGED <<adapterVars, callVars, fnVars>>

\* The offers adapter ad returned, numbered 1..n.
OffersOf(ad, n) == [k \in 1..n |-> <<ad, k>>]

\* A loop that takes the results from the last adapter to the first.
RECURSIVE extend_all_reversed(_, _, _)
extend_all_reversed(res, names, idx) ==
    IF idx = 0 THEN <<>>
    ELSE (IF res[idx] = Raised THEN <<>> ELSE OffersOf(names[idx], res[idx].n))
         \o extend_all_reversed(res, names, idx - 1)

\* for idx, provider_offers in enumerate(results): an exception is printed
\* and skipped, a list is appended to all_offers.
RECURSIVE extend_all(_, _, _)
extend_all(res, names, idx) ==
    IF idx = 0 THEN <<>>
    ELSE extend_all(res, names, idx - 1) \o
         (IF res[idx] = Raised THEN <<>> ELSE OffersOf(names[idx], res[idx].n))

\* gather returned: the loop over the results and the OfferResponse.
main_gather_done ==
    /\ agg_pc = "gather"
    /\ \A i \in 1..Len(fetched) : fetched[i] # Pending
    /\ all_offers' = extend_all(fetched, providers_to_fetch, Len(fetched))
    /\ agg_pc' = "returned"
    /\ UNCHANGED <<providers_to_fetch, fetched, overtaken>>
    /\ UNCHANGED <<adapterVars, callVars, fnVars>>

NextAgg ==
    \/ main_get_offers
    \/ AdapterReturns
    \/ AdapterRaises
    \/ main_gather_done

SpecAgg == InitAgg /\ [][NextAgg]_vars

(***************************************************************************)
(* The claims.                                                             *)
(***************************************************************************)

\* C1: for every adapter, get_offers returns a list and never raises,
\* whatever the upstream answers, an upstream answering every request with
\* an error included.
C1_get_offers_never_raises == pc # "raised"

C3_in_flight_within_limit ==
    UsesSemaphore(adapter) /\ pc = "gather" =>
        InFlight <= ConcurrencyLimit(adapter)

\* The limit is reached while tasks still wait and some are being retried.
C3_witness ==
    /\ UsesSemaphore(adapter) /\ pc = "gather"
    /\ InFlight = ConcurrencyLimit(adapter)
    /\ waiting > 0
    /\ active[1] < InFlight

\* C4: during one get_offers call of WebWunder, at most 5 of its 8
\* sub-requests are in flight at any moment.
C4_WebWunder_in_flight_within_limit ==
    adapter = "WebWunder" => InFlight <= WebWunder_CONNCURENCY_LMIT

\* The upstream's answers so far to the attempts of the call.
TriedTotal ==
    tried["200_ok"] + tried["200_degenerate"] + tried["200_empty"]
    + tried["200_malformed"] + tried["429"] + tried["500"] + tried["transport"]

\* C5: a call that fails k-1 times with a retryable error and then succeeds,
\* k at most the call's maxAttempts, returns the successful result; and no
\* call is attempted more than maxAttempts times.
C5_retry_until_success_within_maxAttempts ==
    /\ att <= stop_after_attempt(call)
    /\ TriedTotal <= stop_after_attempt(call)
    /\ answer = "200_ok" => cstate = "returned" /\ ret = "record"

\* The last allowed attempt succeeds after maxAttempts-1 retryable failures.
C5_witness ==
    /\ att = stop_after_attempt(call)
    /\ tried["429"] + tried["500"] = att - 1
    /\ tried["500"] > 0
    /\ answer = "200_ok" /\ cstate = "returned" /\ ret = "record"

\* C6: when a call fails with a retryable error on every attempt, the
\* adapter degrades to an empty result for that call rather than raising
\* out of get_offers.
C6_exhausted_retries_degrade_to_empty == exc # "RetryError"

\* C7: a transport failure is never retried: the call is attempted exactly
\* once and contributes an empty result.
C7_transport_failure_not_retried ==
    /\ tried["transport"] <= 1
    /\ tried["transport"] = 1 =>
          answer = "transport" /\ cstate = "returned" /\ ret = "empty"

\* A first attempt that ends in a transport failure.
C7_witness ==
    /\ tried["transport"] = 1 /\ att = 1
    /\ cstate = "returned" /\ ret = "empty"

Finished ==
    results["record"] + results["degenerate"] + results["norecord"]
    + results["malformed"] + results["empty"] + results["RetryError"]

\* C9: the list ServusSpeed returns holds exactly one offer per identifier
\* whose detail fetch answered 200 with a valid record, and none for an
\* identifier whose detail fetch answered a failure status.
C9_ServusSpeed_one_offer_per_served_identifier ==
    adapter = "ServusSpeed" /\ pc = "returned" =>
        /\ offers = served
        /\ offers + refused <= Finished

\* Phase 1 listed two identifiers, one answered 200, the other 500.
C9_witness ==
    /\ adapter = "ServusSpeed" /\ pc = "returned"
    /\ Finished = 2 /\ served = 1 /\ refused = 1
    /\ results["empty"] = 1
    /\ offers = 1

\* C10: a malformed upstream payload is treated as an empty result for that
\* item and never leaves get_offers as an exception, for each adapter.
C10_malformed_payload_never_propagates == exc # "ParseError"

(***************************************************************************)
(* Python numbers.  An int is unbounded; a float is an IEEE 754 binary64.  *)
(* A non-negative float is kept exactly, as the bits of its significand    *)
(* (most significant first, no leading zero, at most `Precision` bits) and *)
(* the exponent of the last bit: its value is Value(bits) * 2^exp.  The    *)
(* operations round to nearest, ties to even, as the hardware does.        *)
(***************************************************************************)
Precision == 53

FloatZero == [bits |-> <<>>, exp |-> 0]

(***************************************************************************)
(* Exact arithmetic on naturals too large for one machine word: a number   *)
(* is a sequence of bits or, for carrying, of base-256 digits (most        *)
(* significant first).                                                     *)
(***************************************************************************)
\* The weight of bit t (1..8) of a digit.
BitWeight == <<128, 64, 32, 16, 8, 4, 2, 1>>

\* The bits of a digit sequence, eight per digit.
BitsOfDigits(ds) ==
    [j \in 1..(8 * Len(ds)) |->
        (ds[((j - 1) \div 8) + 1] \div BitWeight[((j - 1) % 8) + 1]) % 2]

\* bits without its leading zeros.
Normalize(bits) ==
    IF \A i \in 1..Len(bits) : bits[i] = 0 THEN <<>>
    ELSE LET first == CHOOSE i \in 1..Len(bits) :
                         bits[i] = 1 /\ \A j \in 1..(i - 1) : bits[j] = 0
         IN  SubSeq(bits, first, Len(bits))

\* The digits of a bit sequence.
DigitsOfBits(bits) ==
    LET nd  == (Len(bits) + 7) \div 8
        pad == 8 * nd - Len(bits)
        bit(idx) == IF idx - pad >= 1 THEN bits[idx - pad] ELSE 0
    IN  [i \in 1..nd |->
            LET o == 8 * (i - 1) IN
            128 * bit(o + 1) + 64 * bit(o + 2) + 32 * bit(o + 3)
            + 16 * bit(o + 4) + 8 * bit(o + 5) + 4 * bit(o + 6)
            + 2 * bit(o + 7) + bit(o + 8)]

\* The digits of a natural number.
RECURSIVE IntDigits(_)
IntDigits(n) == IF n = 0 THEN <<>> ELSE Append(IntDigits(n \div 256), n % 256)

\* The natural number a (short) digit sequence denotes.
RECURSIVE DigitsInt(_)
DigitsInt(ds) ==
    IF ds = <<>> THEN 0
    ELSE 256 * DigitsInt(SubSeq(ds, 1, Len(ds) - 1)) + ds[Len(ds)]

IntBits(n) == Normalize(BitsOfDigits(IntDigits(n)))

BitsInt(bits) == DigitsInt(DigitsOfBits(bits))

RECURSIVE Pow2(_)
Pow2(k) == IF k = 0 THEN 1 ELSE 2 * Pow2(k - 1)

\* bits + 1.
IncBits(bits) ==
    IF \A i \in 1..Len(bits) : bits[i] = 1
    THEN <<1>> \o [i \in 1..Len(bits) |-> 0]
    ELSE LET last == CHOOSE i \in 1..Len(bits) :
                        bits[i] = 0 /\ \A j \in (i + 1)..Len(bits) : bits[j] = 1
         IN  [i \in 1..Len(bits) |->
                IF i < last THEN bits[i] ELSE IF i = last THEN 1 ELSE 0]

\* Round to nearest, ties to even: `bits` are the first Precision bits of the
\* exact value, `half` the next bit, `sticky` whether anything follows it.
RoundNearestEven(bits, exp, half, sticky) ==
    IF half = 1 /\ (sticky \/ bits[Len(bits)] = 1)
    THEN LET up == IncBits(bits) IN
         IF Len(up) > Precision
         THEN [bits |-> SubSeq(up, 1, Precision), exp |-> exp + 1]
         ELSE [bits |-> up, exp |-> exp]
    ELSE [bits |-> bits, exp |-> exp]

\* The float nearest to the exact value (Value(bits) + rest) * 2^exp, where
\* 0 <= rest < 1 and `more` says whether rest # 0.
RoundBits(bits, exp, more) ==
    IF Len(bits) <= Precision THEN [bits |-> bits, exp |-> exp]
    ELSE RoundNearestEven(SubSeq(bits, 1, Precision),
                          exp + (Len(bits) - Precision),
                          bits[Precision + 1],
                          more \/ \E i \in (Precision + 2)..Len(bits) :
                                     bits[i] = 1)

\* Long division: k more digits of the quotient, and the remainder left.
RECURSIVE DivDigits(_, _, _, _)
DivDigits(ds, r, d, k) ==
    IF k = 0 THEN [digits |-> ds, rem |-> r]
    ELSE DivDigits(Append(ds, (256 * r) \div d), (256 * r) % d, d, k - 1)

\* Fraction digits that leave more than Precision bits after the first set
\* bit of any quotient with divisor d.
FractionDigits(d) == ((Precision + 1 + Len(IntBits(d))) \div 8) + 1

\* n / d of two ints (n >= 0, d > 0): true division, a float.
truediv(n, d) ==
    LET q == DivDigits(IntDigits(n \div d), n % d, d, FractionDigits(d))
    IN  IF n = 0 THEN FloatZero
        ELSE RoundBits(Normalize(BitsOfDigits(q.digits)),
                       0 - 8 * FractionDigits(d), q.rem # 0)

\* ds * k + carry, exactly.
RECURSIVE MulDigits(_, _, _)
MulDigits(ds, k, carry) ==
    IF ds = <<>> THEN IntDigits(carry)
    ELSE LET t == ds[Len(ds)] * k + carry IN
         Append(MulDigits(SubSeq(ds, 1, Len(ds) - 1), k, t \div 256), t % 256)

\* k * x of an int k >= 0 and a float x: the int converts exactly, the
\* product is rounded.
float_mul(k, x) ==
    IF k = 0 \/ x.bits = <<>> THEN FloatZero
    ELSE RoundBits(Normalize(BitsOfDigits(MulDigits(DigitsOfBits(x.bits), k, 0))),
                   x.exp, FALSE)

\* int(x), and math.floor(x), of a float x >= 0: the integer part.
int_of_float(x) ==
    IF x.exp >= 0 THEN BitsInt(x.bits) * Pow2(x.exp)
    ELSE IF Len(x.bits) + x.exp <= 0 THEN 0
         ELSE BitsInt(SubSeq(x.bits, 1, Len(x.bits) + x.exp))

(***************************************************************************)
(* Optional values: None is the empty sequence, a value x is <<x>>.        *)
(***************************************************************************)
None    == <<>>
Some(x) == <<x>>

\* Python truth of an optional int: None and 0 are false.
truthy(v) == v # None /\ v[1] # 0

(***************************************************************************)
(* utils/discount_calculator.py: DiscountCalculator.  promotion_length is  *)
(* the value given to the constructor (24 unless stated).                  *)
(***************************************************************************)
DEFAULT_PROMOTION_LENGTH == 24

\* DiscountResult(): every field None.
DiscountResult_empty ==
    [kind |-> "DiscountResult",
     monthly_discount |-> None, monthly_cost_with_discount |-> None,
     total_savings |-> None, discount_percentage |-> None]

DiscountResult(monthly_discount, monthly_cost_with_discount, total_savings, discount_percentage) ==
    [kind |-> "DiscountResult",
     monthly_discount |-> Some(monthly_discount),
     monthly_cost_with_discount |-> Some(monthly_cost_with_discount),
     total_savings |-> Some(total_savings),
     discount_percentage |-> Some(discount_percentage)]

\* floor((monthly_discount / base_monthly_cost) * 100): float arithmetic.
discount_percentage_of(monthly_discount, base_monthly_cost) ==
    int_of_float(float_mul(100, truediv(monthly_discount, base_monthly_cost)))

min(a, b) == IF a <= b THEN a ELSE b

\* `max_discount or 10**10` followed by min(complete_discount, max_discount):
\* 10**10 is above every complete_discount of the inputs enumerated, so an
\* absent (or zero) max_discount leaves complete_discount as it is.
min_with_default(complete_discount, max_discount) ==
    IF truthy(max_discount) THEN min(complete_discount, max_discount[1])
    ELSE complete_discount

\* A percentage path whose monthly discount ignores the cap on the total.
_calculate_percentage_discount_monthly_uncapped(promotion_length, base_monthly_cost, voucher_percentage, max_discount) ==
    LET monthly_discount ==
            int_of_float(float_mul(base_monthly_cost,
                                   truediv(voucher_percentage, 100)))
        complete_discount == monthly_discount * promotion_length
        absolute_discount == min_with_default(complete_discount, max_discount)
        monthly_cost_with_discount == base_monthly_cost - monthly_discount
    IN  IF base_monthly_cost = 0 \/ promotion_length = 0
        THEN [kind |-> "ZeroDivisionError"]
        ELSE DiscountResult(monthly_discount, monthly_cost_with_discount,
                            absolute_discount,
                            discount_percentage_of(monthly_discount,
                                                   base_monthly_cost))

_calculate_percentage_discount(promotion_length, base_monthly_cost, voucher_percentage, max_discount) ==
    LET monthly_discount_temp ==
            int_of_float(float_mul(base_monthly_cost,
                                   truediv(voucher_percentage, 100)))
        complete_discount == monthly_discount_temp * promotion_length
        absolute_discount == min_with_default(complete_discount, max_discount)
        monthly_discount  == absolute_discount \div promotion_length
        monthly_cost_with_discount == base_monthly_cost - monthly_discount
    IN  IF base_monthly_cost = 0 \/ promotion_length = 0
        THEN [kind |-> "ZeroDivisionError"]
        ELSE DiscountResult(monthly_discount, monthly_cost_with_discount,
                            absolute_discount,
                            discount_percentage_of(monthly_discount,
                                                   base_monthly_cost))

\* An absolute path that rounds the monthly share up.
_calculate_absolute_discount_rounding_up(promotion_length, base_monthly_cost, discount_in_cent) ==
    LET monthly_discount ==
            (discount_in_cent + promotion_length - 1) \div promotion_length
        monthly_cost_with_discount == base_monthly_cost - monthly_discount
    IN  IF base_monthly_cost = 0 \/ promotion_length = 0
        THEN [kind |-> "ZeroDivisionError"]
        ELSE DiscountResult(monthly_discount, monthly_cost_with_discount,
                            discount_in_cent,
                            discount_percentage_of(monthly_discount,
                                                   base_monthly_cost))

_calculate_absolute_discount(promotion_length, base_monthly_cost, discount_in_cent) ==
    LET monthly_discount == int_of_float(truediv(discount_in_cent,
                                                 promotion_length))
        monthly_cost_with_discount == base_monthly_cost - monthly_discount
    IN  IF base_monthly_cost = 0 \/ promotion_length = 0
        THEN [kind |-> "ZeroDivisionError"]
        ELSE DiscountResult(monthly_discount, monthly_cost_with_discount,
                            discount_in_cent,
                            discount_percentage_of(monthly_discount,
                                                   base_monthly_cost))

calculate_discount(promotion_length, base_monthly_cost, voucher_percentage, max_discount_in_cent, discount_in_cent) ==
    IF truthy(voucher_percentage)
    THEN _calculate_percentage_discount(promotion_length, base_monthly_cost,
                                        voucher_percentage[1],
                                        max_discount_in_cent)
    ELSE IF truthy(discount_in_cent)
         THEN _calculate_absolute_discount(promotion_length,
                                           base_monthly_cost,
                                           discount_in_cent[1])
         ELSE DiscountResult_empty

(***************************************************************************)
(* SpecDiscount: one call of calculate_discount.  The arguments are a      *)
(* percentage voucher with or without a cap, an absolute voucher, or no    *)
(* voucher; costs and discounts are non-negative cents.                    *)
(***************************************************************************)
MaxBase == 50
MaxPercentage == 100
MaxCap == 2
MaxDiscount == 60
MaxPromotionLength == 1

PromotionLengths == (1..MaxPromotionLength) \cup {DEFAULT_PROMOTION_LENGTH}

Optional(S) == {None} \cup {Some(x) : x \in S}

DiscountArgs ==
    [kind : {"calculate_discount"},
     promotion_length : PromotionLengths,
     base_monthly_cost : 0..MaxBase,
     voucher_percentage : {Some(x) : x \in 1..MaxPercentage},
     max_discount_in_cent : Optional(0..MaxCap),
     discount_in_cent : {None}]
    \cup
    [kind : {"calculate_discount"},
     promotion_length : PromotionLengths,
     base_monthly_cost : 0..MaxBase,
     voucher_percentage : {None, Some(0)},
     max_discount_in_cent : {None},
     discount_in_cent : Optional(0..MaxDiscount)]

InitDiscount ==
    /\ op = "calculate_discount"
    /\ args \in DiscountArgs
    /\ result = [kind |-> "none"]
    /\ IdleAdapter
    /\ IdleCall
    /\ IdleAgg

call_calculate_discount ==
    /\ op = "calculate_discount"
    /\ result.kind = "none"
    /\ result' = calculate_discount(args.promotion_length,
                                    args.base_monthly_cost,
                                    args.voucher_percentage,
                                    args.max_discount_in_cent,
                                    args.discount_in_cent)
    /\ UNCHANGED <<op, args>>
    /\ UNCHANGED <<adapterVars, callVars, aggVars>>

NextDiscount == call_calculate_discount

SpecDiscount == InitDiscount /\ [][NextDiscount]_vars

\* calculate_discount took the percentage path and returned.
PercentagePath ==
    /\ op = "calculate_discount"
    /\ truthy(args.voucher_percentage)
    /\ result.kind = "DiscountResult"

\* calculate_discount took the absolute path and returned.
AbsolutePath ==
    /\ op = "calculate_discount"
    /\ ~truthy(args.voucher_percentage) /\ truthy(args.discount_in_cent)
    /\ result.kind = "DiscountResult"

\* C11: for any base cost B > 0 and percentage discount P with cap C,
\* monthly_cost_with_discount = B - monthly_discount and total_savings <= C.
C11_percentage_discount_within_cap ==
    PercentagePath /\ args.base_monthly_cost > 0 =>
        /\ result.monthly_cost_with_discount[1] =
              args.base_monthly_cost - result.monthly_discount[1]
        /\ args.max_discount_in_cent # None =>
              result.total_savings[1] <= args.max_discount_in_cent[1]

\* C12: for an absolute discount D over promotion length L, monthly_discount
\* is D // L exactly and monthly_cost_with_discount = base - monthly_discount.
C12_absolute_monthly_discount_is_floor_division ==
    AbsolutePath =>
        /\ result.monthly_discount[1] =
              args.discount_in_cent[1] \div args.promotion_length
        /\ result.monthly_cost_with_discount[1] =
              args.base_monthly_cost - result.monthly_discount[1]

\* A discount that does not divide evenly over 24 months.
C12_witness ==
    /\ AbsolutePath
    /\ args.promotion_length = DEFAULT_PROMOTION_LENGTH
    /\ args.discount_in_cent[1] % args.promotion_length # 0
    /\ result.monthly_discount[1] = 2

\* C13: on the percentage path the uncapped monthly discount is
\* floor(base * pct / 100) on integers, the total is that times the promotion
\* length capped at the stated maximum, and the monthly discount returned is
\* cappedTotal divided by the promotion length with integer division.
C13_percentage_path_integer_arithmetic ==
    PercentagePath =>
        LET uncapped == (args.base_monthly_cost * args.voucher_percentage[1])
                           \div 100
            total    == uncapped * args.promotion_length
            capped   == IF args.max_discount_in_cent = None THEN total
                        ELSE min(total, args.max_discount_in_cent[1])
        IN  /\ result.total_savings[1] = capped
            /\ result.monthly_discount[1] = capped \div args.promotion_length

\* C14: on both paths discount_percentage = floor(monthly_discount * 100 /
\* base) for every base cost > 0.
C14_discount_percentage_is_floor ==
    (PercentagePath \/ AbsolutePath) /\ args.base_monthly_cost > 0 =>
        result.discount_percentage[1] =
            (result.monthly_discount[1] * 100) \div args.base_monthly_cost

(***************************************************************************)
(* utils/connection_mapper.py: ConnectionTypeMapper.  A str is a sequence  *)
(* of characters, so that "CABLE" and "Cable" differ as they do in Python. *)
(***************************************************************************)
SCHEMA_MAPPING ==
    (<<"D", "S", "L">>                :> <<"D", "S", "L">>) @@
    (<<"C", "A", "B", "L", "E">>      :> <<"C", "a", "b", "l", "e">>) @@
    (<<"F", "I", "B", "E", "R">>      :> <<"F", "i", "b", "e", "r">>) @@
    (<<"M", "O", "B", "I", "L", "E">> :> <<"M", "o", "b", "i", "l", "e">>)

\* A lookup that raises for a key the table does not hold.
map_connection_type_subscript(api_connection_type) ==
    IF api_connection_type \in DOMAIN SCHEMA_MAPPING
    THEN [kind |-> "str", value |-> SCHEMA_MAPPING[api_connection_type]]
    ELSE [kind |-> "KeyError"]

\* cls.SCHEMA_MAPPING.get(api_connection_type, api_connection_type)
map_connection_type(api_connection_type) ==
    IF api_connection_type \in DOMAIN SCHEMA_MAPPING
    THEN [kind |-> "str", value |-> SCHEMA_MAPPING[api_connection_type]]
    ELSE [kind |-> "str", value |-> api_connection_type]

(***************************************************************************)
(* SpecMapper: map_connection_type applied to a string, and again to what  *)
(* it returned.  The inputs are the keys and the values of the table and   *)
(* every string of at most MaxStrLen characters of a small alphabet.       *)
(***************************************************************************)
MaxStrLen == 3

MapperAlphabet == {"D", "S", "L", "s"}

RECURSIVE StringsUpTo(_, _)
StringsUpTo(A, n) ==
    IF n = 0 THEN {<<>>}
    ELSE LET shorter == StringsUpTo(A, n - 1)
         IN  shorter \cup {Append(w, c) : w \in shorter, c \in A}

CanonicalConnectionTypes == {SCHEMA_MAPPING[k] : k \in DOMAIN SCHEMA_MAPPING}

MapperInputs ==
    DOMAIN SCHEMA_MAPPING \cup CanonicalConnectionTypes
    \cup StringsUpTo(MapperAlphabet, MaxStrLen)

InitMapper ==
    /\ op = "map_connection_type"
    /\ args \in [kind : {"map_connection_type"},
                 api_connection_type : MapperInputs]
    /\ result = [kind |-> "none"]
    /\ IdleAdapter
    /\ IdleCall
    /\ IdleAgg

call_map_connection_type ==
    /\ op = "map_connection_type"
    /\ result.kind = "none"
    /\ result' = map_connection_type(args.api_connection_type)
    /\ UNCHANGED <<op, args>>
    /\ UNCHANGED <<adapterVars, callVars, aggVars>>

\* The caller maps the value it got once more.
call_map_connection_type_again ==
    /\ op = "map_connection_type"
    /\ result.kind = "str"
    /\ op' = "map_connection_type(map_connection_type)"
    /\ result' = [kind |-> "twice", first |-> result.value,
                  second |-> map_connection_type(result.value)]
    /\ UNCHANGED args
    /\ UNCHANGED <<adapterVars, callVars, aggVars>>

NextMapper == call_map_connection_type \/ call_map_connection_type_again

SpecMapper == InitMapper /\ [][NextMapper]_vars

\* C15: map_connection_type is idempotent; a canonical value (DSL, Cable,
\* Fiber, Mobile) is returned unchanged, and an unknown input is returned
\* unchanged without raising.
C15_map_connection_type_idempotent ==
    /\ result.kind = "twice" =>
          result.second = [kind |-> "str", value |-> result.first]
    /\ op = "map_connection_type" /\ result.kind # "none" =>
          /\ result.kind = "str"
          /\ args.api_connection_type \in CanonicalConnectionTypes =>
                result.value = args.api_connection_type
          /\ args.api_connection_type \notin DOMAIN SCHEMA_MAPPING =>
                result.value = args.api_connection_type

\* An API-format key was mapped to its canonical value, and mapping that
\* value again left it as it was.
C15_witness ==
    /\ result.kind = "twice"
    /\ args.api_connection_type \in DOMAIN SCHEMA_MAPPING
    /\ result.first # args.api_connection_type
    /\ result.second.kind = "str" /\ result.second.value = result.first

(***************************************************************************)
(* api/byteMe.py: the rows csv.DictReader yields and their de-duplication. *)
(* A dict is the sequence of its (key, value) items in insertion order; a  *)
(* value is a str, None, or the list DictReader stores under restkey for   *)
(* the cells a row has beyond the header.                                  *)
(***************************************************************************)
PyNone == [kind |-> "None"]

PyStr(s) == [kind |-> "str", value |-> s]

PyList(items) == [kind |-> "list", items |-> items]

\* csv.DictReader(..., restkey=None): the key of the surplus cells.
restkey == "None"

\* The header line of the CSV, cut to two columns.
fieldnames == <<"productId", "speed">>

\* csv.DictReader.__next__ for one non-empty line of cells.
DictReader_row(row) ==
    LET lf == Len(fieldnames)
        lr == Len(row)
        d  == [i \in 1..lf |->
                 <<fieldnames[i], IF i <= lr THEN PyStr(row[i]) ELSE PyNone>>]
    IN  IF lr > lf
        THEN Append(d, <<restkey, PyList(SubSeq(row, lf + 1, lr))>>)
        ELSE d

\* hash() of a value: a list is unhashable.
hashable(v) == v.kind # "list"

\* hash(tuple(d.items())) hashes every item of the tuple.
hashable_items(d) == \A i \in 1..Len(d) : hashable(d[i][2])

\* The orders in which a set can be iterated.
Orderings(S) ==
    {f \in [1..Cardinality(S) -> S] :
        \A i, j \in 1..Cardinality(S) : f[i] = f[j] => i = j}

\* [dict(unique) for unique in {tuple(d.items()) for d in dict_list}]:
\* the outcomes of the call; the iteration order of a set is not fixed.
_remove_duplicates_from_dict_list(dict_list) ==
    IF \E i \in 1..Len(dict_list) : ~hashable_items(dict_list[i])
    THEN {[kind |-> "TypeError"]}
    ELSE {[kind |-> "list", value |-> f] :
            f \in Orderings({dict_list[i] : i \in 1..Len(dict_list)})}

(***************************************************************************)
(* SpecDedup: _remove_duplicates_from_dict_list applied to the rows parsed *)
(* from a CSV of at most MaxRows data lines; a line has fewer cells than   *)
(* the header, as many, or one more.                                       *)
(***************************************************************************)
MaxRows == 3

CellValues == {"a", "b"}

CsvLines ==
    UNION {[1..n -> CellValues] : n \in 1..(Len(fieldnames) + 1)}

\* The lists DictReader yields for the CSVs of at most n data lines.
DictLists(n) ==
    UNION {{[i \in 1..k |-> DictReader_row(lines[i])] :
              lines \in [1..k -> CsvLines]} : k \in 0..n}

InitDedup ==
    /\ op = "_remove_duplicates_from_dict_list"
    /\ args \in [kind : {"_remove_duplicates_from_dict_list"},
                 dict_list : DictLists(MaxRows)]
    /\ result = [kind |-> "none"]
    /\ IdleAdapter
    /\ IdleCall
    /\ IdleAgg

call_remove_duplicates_from_dict_list ==
    /\ op = "_remove_duplicates_from_dict_list"
    /\ result.kind = "none"
    /\ result' \in _remove_duplicates_from_dict_list(args.dict_list)
    /\ UNCHANGED <<op, args>>
    /\ UNCHANGED <<adapterVars, callVars, aggVars>>

NextDedup == call_remove_duplicates_from_dict_list

SpecDedup == InitDedup /\ [][NextDedup]_vars

InputRows == {args.dict_list[i] : i \in 1..Len(args.dict_list)}

\* The output holds no row twice, every distinct input row, and nothing else.
Deduplicated(out) ==
    /\ \A i, j \in 1..Len(out) : out[i] = out[j] => i = j
    /\ {out[i] : i \in 1..Len(out)} = InputRows

\* C16: for any list of parsed CSV rows the call returns a list with no two
\* identical rows, at least one instance of every distinct input row, and
\* no row that was not in the input.
C16_deduplicated_output ==
    op = "_remove_duplicates_from_dict_list" /\ result.kind # "none" =>
        /\ result.kind = "list"
        /\ Deduplicated(result.value)

(***************************************************************************)
(* api/pingPerfect.py: the signed request.  Strings are the sequences of   *)
(* their characters.  HMAC-SHA256 is a symbolic digest: a value that is    *)
(* equal to another digest exactly when key and message are equal.         *)
(***************************************************************************)
Digit == <<"0", "1", "2", "3", "4", "5", "6", "7", "8", "9">>

\* str(n) of a non-negative int
RECURSIVE str_int(_)
str_int(n) ==
    IF n < 10 THEN <<Digit[n + 1]>>
    ELSE Append(str_int(n \div 10), Digit[(n % 10) + 1])

\* json.dumps of one character of a str (ensure_ascii=False)
json_escape_char(c) ==
    IF c = "\"" THEN <<"\\", "\"">>
    ELSE IF c = "\\" THEN <<"\\", "\\">>
    ELSE <<c>>

RECURSIVE json_escape(_)
json_escape(str) ==
    IF str = <<>> THEN <<>>
    ELSE json_escape_char(Head(str)) \o json_escape(Tail(str))

json_str(str) == <<"\"">> \o json_escape(str) \o <<"\"">>

TRUE_JSON == <<"t", "r", "u", "e">>

FALSE_JSON == <<"f", "a", "l", "s", "e">>

KEY_CITY == <<"{", "\"", "c", "i", "t", "y", "\"", ":">>

KEY_HOUSE_NUMBER == <<",", "\"", "h", "o", "u", "s", "e", "N", "u", "m", "b", "e", "r", "\"", ":">>

KEY_PLZ == <<",", "\"", "p", "l", "z", "\"", ":">>

KEY_STREET == <<",", "\"", "s", "t", "r", "e", "e", "t", "\"", ":">>

KEY_WANTS_FIBER == <<",", "\"", "w", "a", "n", "t", "s", "F", "i", "b", "e", "r", "\"", ":">>

json_bool(b) ==
    IF b THEN TRUE_JSON ELSE FALSE_JSON

\* PingPerfectRequestData(city, house_number, plz, street, wants_fiber=False)
_get_payload(request_data) ==
    [city        |-> request_data.address.city,
     houseNumber |-> request_data.address.house_number,
     plz         |-> request_data.address.zip,
     street      |-> request_data.address.street,
     wantsFiber  |-> FALSE]

\* json.dumps(payload.model_dump(by_alias=True), ensure_ascii=False,
\*            separators=(",", ":"))
json_dumps(payload_dict) ==
    KEY_CITY \o json_str(payload_dict.city)
    \o KEY_HOUSE_NUMBER \o json_str(payload_dict.houseNumber)
    \o KEY_PLZ \o str_int(payload_dict.plz)
    \o KEY_STREET \o json_str(payload_dict.street)
    \o KEY_WANTS_FIBER \o json_bool(payload_dict.wantsFiber)
    \o <<"}">>

\* hmac.new(key, msg, hashlib.sha256).hexdigest()
hmac_sha256_hexdigest(key, msg) ==
    [kind |-> "hmac-sha256", key |-> key, msg |-> msg]

\* A signature computed over the body alone.
_get_hashed_payload_without_timestamp(payload_as_json, current_timestamp, secret) ==
    hmac_sha256_hexdigest(secret, payload_as_json)

\* json_and_timestamp = f"{current_timestamp}:{payload_as_json}"
_get_hashed_payload(payload_as_json, current_timestamp, secret) ==
    LET json_and_timestamp ==
            str_int(current_timestamp) \o <<":">> \o payload_as_json
    IN  hmac_sha256_hexdigest(secret, json_and_timestamp)

_get_headers(payload_hashed, client_id, current_timestamp) ==
    [x_client_id  |-> client_id,
     x_signature  |-> payload_hashed,
     x_timestamp  |-> str_int(current_timestamp),
     content_type |-> "application/json"]

\* get_offers up to session.post(BASE_URL, data=payload): the request sent.
PingPerfect_request(request_data, current_timestamp, settings) ==
    LET payload         == _get_payload(request_data)
        payload_as_json == json_dumps(payload)
        payload_hashed  == _get_hashed_payload(
                               payload_as_json, current_timestamp,
                               settings.PINGPERFECT_SIGNATURE_SECRET)
    IN  [headers |-> _get_headers(payload_hashed,
                                  settings.PINGPERFECT_CLIENT_ID,
                                  current_timestamp),
         data    |-> payload_as_json]

(***************************************************************************)
(* SpecSign: up to MaxRequests calls of PingPerfect.get_offers, each for   *)
(* an address and at a clock reading not before the previous one; result   *)
(* holds the requests sent.                                                *)
(***************************************************************************)
MaxRequests == 2

MaxClock == 5

\* int(time.time()) of the first reading: 8, so that the readings have one
\* and two digits.
FirstClock == 8

Clock == FirstClock..(FirstClock + MaxClock)

Cities == {<<"A">>, <<"\"">>, <<"A", "\\">>}

Streets == {<<"A">>, <<"\\", "\"">>}

Zips == {10000, 80333}

RequestData ==
    [address : [street : Streets, house_number : {<<"5">>},
                zip : Zips, city : Cities, country_code : {<<"D", "E">>}]]

settings ==
    [PINGPERFECT_CLIENT_ID |-> "client", PINGPERFECT_SIGNATURE_SECRET |-> "secret"]

InitSign ==
    /\ op = "PingPerfect.get_offers"
    /\ args = [kind |-> "none"]
    /\ result = [kind |-> "requests", sent |-> <<>>, clock |-> FirstClock]
    /\ IdleAdapter
    /\ IdleCall
    /\ IdleAgg

PingPerfect_send ==
    /\ op = "PingPerfect.get_offers"
    /\ Len(result.sent) < MaxRequests
    /\ \E request_data \in RequestData, now \in Clock :
          /\ now >= result.clock
          /\ args' = [kind |-> "PingPerfect.get_offers",
                      request_data |-> request_data,
                      current_timestamp |-> now]
          /\ result' = [kind  |-> "requests",
                        sent  |-> Append(result.sent,
                                    PingPerfect_request(request_data, now, settings)),
                        clock |-> now]
    /\ UNCHANGED op
    /\ UNCHANGED <<adapterVars, callVars, aggVars>>

NextSign == PingPerfect_send

SpecSign == InitSign /\ [][NextSign]_vars

Sent == IF op = "PingPerfect.get_offers" THEN result.sent ELSE <<>>

\* C17: the X-Signature of every request sent is HMAC-SHA256(secret,
\* "<timestamp>:<body>") with <timestamp> the X-Timestamp header and <body>
\* the body posted; two requests with different bodies carry different
\* signatures.
C17_signature_over_timestamp_and_body ==
    /\ \A i \in 1..Len(Sent) :
          Sent[i].headers.x_signature =
              hmac_sha256_hexdigest(
                  settings.PINGPERFECT_SIGNATURE_SECRET,
                  Sent[i].headers.x_timestamp \o <<":">> \o Sent[i].data)
    /\ \A i, j \in 1..Len(Sent) :
          Sent[i].data # Sent[j].data =>
              Sent[i].headers.x_signature # Sent[j].headers.x_signature

\* Two requests were sent at different clock readings with different bodies.
C17_witness ==
    /\ Len(Sent) = 2
    /\ Sent[1].data # Sent[2].data
    /\ Sent[1].headers.x_timestamp # Sent[2].headers.x_timestamp
    /\ Len(Sent[2].headers.x_timestamp) = 2

(***************************************************************************)
(* api/verbynDich.py: one page's payload, its description and the offer    *)
(* made of it.  A description is the sequence of its phrases; a phrase has *)
(* the label of the pattern whose fixed words it carries and the text at   *)
(* the place of the pattern's group.  re.search returns the group of the   *)
(* first phrase the pattern matches.                                       *)
(***************************************************************************)
Uppercase ==
    ("a" :> "A") @@ ("b" :> "B") @@ ("c" :> "C") @@ ("d" :> "D") @@ ("e" :> "E") @@ ("f" :> "F") @@
    ("g" :> "G") @@ ("h" :> "H") @@ ("i" :> "I") @@ ("j" :> "J") @@ ("k" :> "K") @@ ("l" :> "L") @@
    ("m" :> "M") @@ ("n" :> "N") @@ ("o" :> "O") @@ ("p" :> "P") @@ ("q" :> "Q") @@ ("r" :> "R") @@
    ("s" :> "S") @@ ("t" :> "T") @@ ("u" :> "U") @@ ("v" :> "V") @@ ("w" :> "W") @@ ("x" :> "X") @@
    ("y" :> "Y") @@ ("z" :> "Z")

\* str.upper() and str.lower() on ASCII letters
upper(str) ==
    [i \in 1..Len(str) |->
        IF str[i] \in DOMAIN Uppercase THEN Uppercase[str[i]] ELSE str[i]]

lower(str) ==
    [i \in 1..Len(str) |->
        IF \E l \in DOMAIN Uppercase : Uppercase[l] = str[i]
        THEN CHOOSE l \in DOMAIN Uppercase : Uppercase[l] = str[i]
        ELSE str[i]]

IsDigit(c) == \E d \in 1..10 : Digit[d] = c

\* int(str) of a string of decimal digits
RECURSIVE int_str(_)
int_str(str) ==
    IF str = <<>> THEN 0
    ELSE 10 * int_str(SubSeq(str, 1, Len(str) - 1))
         + (CHOOSE d \in 0..9 : Digit[d + 1] = str[Len(str)])

\* (\d+) and (DSL|Cable|Fiber|Mobile)
group_matches(label, group) ==
    IF label = "connection_type"
    THEN group \in CanonicalConnectionTypes
    ELSE group # <<>> /\ \A i \in 1..Len(group) : IsDigit(group[i])

\* re.search(pattern, description): None, or group(1) of the first match
re_search(label, description) ==
    LET hits == {i \in 1..Len(description) :
                    /\ description[i].label = label
                    /\ group_matches(label, description[i].group)}
    IN  IF hits = {} THEN None
        ELSE Some(description[CHOOSE i \in hits : \A j \in hits : i <= j].group)

\* int(match.group(1)) * factor for an optional field
optional_int(match, factor) ==
    IF match = None THEN None ELSE Some(int_str(match[1]) * factor)

VerbynDich_parse_description(description) ==
    LET cost_match       == re_search("monthly_cost", description)
        connection_match == re_search("connection_type", description)
        speed_match      == re_search("speed", description)
        contract_match   == re_search("contract_duration", description)
        promo_match      == re_search("price_after_promotion", description)
    IN  IF \/ cost_match = None \/ connection_match = None
           \/ speed_match = None \/ contract_match = None
        THEN [kind |-> "ValueError"]
        ELSE [kind |-> "VerbynDichProduct",
              monthly_cost_in_cent  |-> int_str(cost_match[1]) * 100,
              connection_type       |-> upper(connection_match[1]),
              speed                 |-> int_str(speed_match[1]),
              contract_duration     |-> int_str(contract_match[1]),
              price_after_promotion |->
                  IF promo_match # None THEN int_str(promo_match[1]) * 100
                  ELSE int_str(cost_match[1]) * 100,
              data_limit      |-> optional_int(re_search("data_limit", description), 1),
              age_restriction |-> optional_int(re_search("age_restriction", description), 1),
              discount_percentage |->
                  optional_int(re_search("discount_percentage", description), 1),
              max_discount |-> optional_int(re_search("max_discount", description), 100),
              absolute_discount_in_cent |->
                  optional_int(re_search("absolute_discount", description), 100)]

VerbynDich_PROMOTION_LENGTH == 24

VerbynDich_get_price_details(raw_offer) ==
    LET discount_result ==
            calculate_discount(VerbynDich_PROMOTION_LENGTH,
                               raw_offer.monthly_cost_in_cent,
                               raw_offer.discount_percentage,
                               raw_offer.max_discount,
                               raw_offer.absolute_discount_in_cent)
    IN  IF discount_result.kind # "DiscountResult" THEN discount_result
        ELSE [kind |-> "PriceDetails",
              monthly_cost |-> raw_offer.monthly_cost_in_cent,
              monthly_cost_with_discount |-> discount_result.monthly_cost_with_discount,
              monthly_savings |-> discount_result.monthly_discount,
              monthly_cost_after_promotion |-> Some(raw_offer.price_after_promotion),
              total_savings |-> discount_result.total_savings,
              discount_percentage |-> discount_result.discount_percentage]

IsAlnum(c) ==
    \/ IsDigit(c)
    \/ c \in DOMAIN Uppercase
    \/ \E l \in DOMAIN Uppercase : Uppercase[l] = c

VERBYNDICH_PREFIX == <<"v", "e", "r", "b", "y", "n", "d", "i", "c", "h", "_">>

\* re.sub(r"[^a-zA-Z0-9]", "", product_name.lower())
VerbynDich_generate_offer_id(product_name) ==
    VERBYNDICH_PREFIX \o SelectSeq(lower(product_name), IsAlnum)

\* dict.get(key, default) of an optional entry
dict_get(entry, default) == IF entry = None THEN default ELSE entry[1]

\* The try block of normalize_offer: what it returns or raises.
VerbynDich_normalize_offer_try(raw_offer) ==
    LET product_name == dict_get(raw_offer.product, <<>>)
        description  == dict_get(raw_offer.description, <<>>)
        parsed_data  == VerbynDich_parse_description(description)
        price_details == VerbynDich_get_price_details(parsed_data)
    IN  IF product_name = <<>> \/ description = <<>>
        THEN [kind |-> "ValueError"]
        ELSE IF parsed_data.kind # "VerbynDichProduct" THEN parsed_data
        ELSE IF price_details.kind # "PriceDetails" THEN price_details
        ELSE [kind |-> "NormalizedOffer",
              offer_id          |-> VerbynDich_generate_offer_id(product_name),
              name              |-> product_name,
              speed             |-> parsed_data.speed,
              connection_type   |->
                  map_connection_type(parsed_data.connection_type).value,
              contract_duration |-> parsed_data.contract_duration,
              promotion_length  |-> VerbynDich_PROMOTION_LENGTH,
              data_limit        |-> parsed_data.data_limit,
              \* max_age is not among the keyword arguments: the schema's default
              max_age           |-> None,
              price_details     |-> price_details]

\* normalize_offer that lets the exception of its try block escape.
VerbynDich_normalize_offer_unguarded(raw_offer) ==
    IF ~dict_get(raw_offer.valid, FALSE) THEN PyNone
    ELSE VerbynDich_normalize_offer_try(raw_offer)

\* VerbynDich.normalize_offer for the dict of one page
VerbynDich_normalize_offer_page(raw_offer) ==
    IF ~dict_get(raw_offer.valid, FALSE) THEN PyNone
    ELSE LET r == VerbynDich_normalize_offer_try(raw_offer)
         IN  IF r.kind = "NormalizedOffer" THEN r ELSE PyNone

(***************************************************************************)
(* SpecPages: VerbynDich.get_offers over the payloads of its pages, each   *)
(* answered with status 200: normalize_offer page by page, then the loop   *)
(* over the gathered results.  Either one page with any of PagePayloads,   *)
(* or up to MaxPages pages with payloads of SamplePages.                   *)
(***************************************************************************)
MaxPages == 2

Phrase(label, group) == [label |-> label, group |-> group]

\* The phrase of an optional labelled field; None leaves the field out.
Field(label, group) ==
    IF group = None THEN <<>> ELSE <<Phrase(label, group[1])>>

\* "... Rabatt von 12% ... bis zum 24. Monat. Der maximale Rabatt beträgt
\* 107€. Ab dem 24. Monat beträgt der monatliche Preis 29€."
PercentageDiscountPhrases ==
    <<Phrase("discount_percentage", <<"1", "2">>),
      Phrase("max_discount", <<"1", "0", "7">>),
      Phrase("price_after_promotion", <<"2", "9">>)>>

DiscountPhrases ==
    {<<>>, PercentageDiscountPhrases,
     <<Phrase("absolute_discount", <<"5", "0">>)>>}

Description(cost, connection, speed, duration, discount) ==
    <<Phrase("other", <<>>)>>
    \o Field("monthly_cost", cost) \o Field("connection_type", connection)
    \o Field("speed", speed) \o Field("contract_duration", duration)
    \o discount

Costs == {<<"0">>, <<"3", "0">>, <<"4", "5">>}

ConnectionWords == CanonicalConnectionTypes \cup {<<"L", "T", "E">>}

Speeds == {<<"2", "5">>, <<"1", "0", "0">>}

Durations == {<<"1", "2">>}

\* "nur für Personen unter 27 Jahren"
AgeRestrictions == {<<"2", "7">>}

Descriptions ==
    {Description(c, t, v, d, r) \o Field("age_restriction", g) :
        c \in Optional(Costs), t \in Optional(ConnectionWords),
        v \in Optional(Speeds), d \in Optional(Durations), r \in DiscountPhrases,
        g \in Optional(AgeRestrictions)}

ProductNames == {<<"B", "a", "s", "i", "c", " ", "2", "5">>, <<"b", "a", "s", "i", "c", "-", "2", "5">>}

PagePayloads ==
    [valid : Optional(BOOLEAN),
     product : Optional(ProductNames \cup {<<>>}),
     description : Optional(Descriptions \cup {<<>>})]

\* The description of the example page: 30 euro, DSL, 25 Mbit/s, 12 months.
ExampleDescription ==
    Description(Some(<<"3", "0">>), Some(<<"D", "S", "L">>),
                Some(<<"2", "5">>), Some(<<"1", "2">>),
                PercentageDiscountPhrases)

\* The example page, the same with one mandatory field left out, and the
\* pages flagged invalid or lacking a key or its value.
SampleDescriptions ==
    {ExampleDescription} \cup
    {SelectSeq(ExampleDescription, LAMBDA ph : ph.label # l) :
        l \in {"monthly_cost", "connection_type", "speed", "contract_duration"}}

SamplePages ==
    {[valid |-> Some(TRUE), product |-> Some(n), description |-> Some(d)] :
        n \in ProductNames, d \in SampleDescriptions}
    \cup {[valid |-> v, product |-> Some(<<"B", "a", "s", "i", "c", " ", "2", "5">>),
           description |-> Some(ExampleDescription)] : v \in {None, Some(FALSE)}}
    \cup {[valid |-> Some(TRUE), product |-> n,
           description |-> Some(ExampleDescription)] : n \in {None, Some(<<>>)}}
    \cup {[valid |-> Some(TRUE), product |-> Some(<<"B", "a", "s", "i", "c", " ", "2", "5">>),
           description |-> d] : d \in {None, Some(<<>>)}}

InitPages ==
    /\ op = "VerbynDich.get_offers"
    /\ args \in [kind : {"VerbynDich.get_offers"},
                 pages : {<<pl>> : pl \in PagePayloads}
                         \cup UNION {[1..n -> SamplePages] : n \in 2..MaxPages}]
    /\ result = [kind |-> "results", results |-> <<>>]
    /\ IdleAdapter
    /\ IdleCall
    /\ IdleAgg

\* _get_offer of the next page returns what normalize_offer made of it.
VerbynDich_page ==
    /\ op = "VerbynDich.get_offers"
    /\ result.kind = "results"
    /\ Len(result.results) < Len(args.pages)
    /\ result' = [kind |-> "results",
                  results |-> Append(result.results,
                      VerbynDich_normalize_offer_page(
                          args.pages[Len(result.results) + 1]))]
    /\ UNCHANGED <<op, args>>
    /\ UNCHANGED <<adapterVars, callVars, aggVars>>

\* for i, result in enumerate(results): ... elif result: append
VerbynDich_result_loop ==
    /\ op = "VerbynDich.get_offers"
    /\ result.kind = "results"
    /\ Len(result.results) = Len(args.pages)
    /\ result' = [kind |-> "list", results |-> result.results,
                  value |-> SelectSeq(result.results,
                                      LAMBDA r : r.kind = "NormalizedOffer")]
    /\ UNCHANGED <<op, args>>
    /\ UNCHANGED <<adapterVars, callVars, aggVars>>

NextPages == VerbynDich_page \/ VerbynDich_result_loop

SpecPages == InitPages /\ [][NextPages]_vars

MandatoryFields ==
    {"monthly_cost", "connection_type", "speed", "contract_duration"}

DescriptionOf(pl) == dict_get(pl.description, <<>>)

\* The page is flagged valid, has a product name, and its description has
\* the four mandatory labelled fields.
ValidPage(pl) ==
    /\ dict_get(pl.valid, FALSE)
    /\ dict_get(pl.product, <<>>) # <<>>
    /\ \A l \in MandatoryFields : re_search(l, DescriptionOf(pl)) # None

Processed ==
    IF op = "VerbynDich.get_offers" THEN 1..Len(result.results) ELSE {}

\* C18: for a valid page whose description has the four mandatory fields,
\* normalize_offer returns an offer whose speed, connection type, contract
\* duration and monthly cost (euros times 100) are the description's values.
C18_offer_carries_description_values ==
    \A i \in Processed :
        ValidPage(args.pages[i]) =>
            LET r == result.results[i]
                d == DescriptionOf(args.pages[i])
            IN  /\ r.kind = "NormalizedOffer"
                /\ r.speed = int_str(re_search("speed", d)[1])
                /\ r.connection_type = re_search("connection_type", d)[1]
                /\ r.contract_duration = int_str(re_search("contract_duration", d)[1])
                /\ r.price_details.monthly_cost =
                       int_str(re_search("monthly_cost", d)[1]) * 100

\* C19: a page flagged invalid, or lacking a product name or description,
\* or whose description lacks a mandatory field, yields no offer and no
\* exception; the offers of the other pages are all in the returned list.
C19_bad_page_yields_no_offer ==
    /\ \A i \in Processed :
          ~ValidPage(args.pages[i]) => result.results[i] = PyNone
    /\ op = "VerbynDich.get_offers" /\ result.kind = "list" =>
          LET kept == {i \in Processed : result.results[i].kind = "NormalizedOffer"}
          IN  /\ Len(result.value) = Cardinality(kept)
              /\ \A i \in kept :
                    \E j \in 1..Len(result.value) : result.value[j] = result.results[i]

\* Of two pages the first lacked a mandatory field and the second was valid:
\* the list returned holds the one offer of the second page.
C19_witness ==
    /\ op = "VerbynDich.get_offers" /\ result.kind = "list"
    /\ Len(args.pages) = 2
    /\ args.pages[1].valid = Some(TRUE)
    /\ DescriptionOf(args.pages[1]) # <<>>
    /\ re_search("speed", DescriptionOf(args.pages[1])) = None
    /\ ValidPage(args.pages[2])
    /\ result.value = <<result.results[2]>>

\* C20: the list one adapter's get_offers returns holds no two offers with
\* the same offer_id, whatever the upstream answered; the id generated from
\* a product name is a function of that name alone.
C20_offer_ids_unique ==
    op = "VerbynDich.get_offers" /\ result.kind = "list" =>
        /\ \A i, j \in 1..Len(result.value) :
              result.value[i].offer_id = result.value[j].offer_id => i = j
        /\ \A i \in 1..Len(result.value) :
              result.value[i].offer_id =
                  VerbynDich_generate_offer_id(result.value[i].name)

(***************************************************************************)
(* schemas.py: Address.  The zip handed to the constructor is an int or a  *)
(* str of digits (pydantic turns a numeric str into an int).               *)
(***************************************************************************)
ZIP_GE == 10000

ZIP_LE == 99999

ZIP_DIGITS == 5

\* zip: int: the int a value is validated as, None when it is no int.
int_field(v) ==
    IF v.kind = "int" THEN Some(v.value)
    ELSE IF v.value # <<>> /\ \A i \in 1..Len(v.value) : IsDigit(v.value[i])
         THEN Some(int_str(v.value))
    ELSE None

\* Address(zip=...): Field(ge=10000, le=99999), then validate_zip
Address(zip) ==
    LET value == int_field(zip)
    IN  IF value = None THEN [kind |-> "ValidationError"]
        ELSE IF value[1] < ZIP_GE \/ value[1] > ZIP_LE
             THEN [kind |-> "ValidationError"]
        ELSE IF Len(str_int(value[1])) # ZIP_DIGITS THEN [kind |-> "ValidationError"]
        ELSE [kind |-> "Address", zip |-> value[1]]

(***************************************************************************)
(* SpecAddress: Address constructed from a postal code of at most          *)
(* MaxZipLen digits, given as a str or as the int it denotes.              *)
(***************************************************************************)
MaxZipLen == 6

ZipDigits == {"0", "1", "9"}

\* The postal codes of at most n digits.
ZipInputs(n) ==
    LET codes == StringsUpTo(ZipDigits, n)
    IN  {[kind |-> "str", value |-> c] : c \in codes}
        \cup {[kind |-> "int", value |-> int_str(c)] : c \in codes \ {<<>>}}

InitAddress ==
    /\ op = "Address"
    /\ args \in [kind : {"Address"}, zip : ZipInputs(MaxZipLen)]
    /\ result = [kind |-> "none"]
    /\ IdleAdapter
    /\ IdleCall
    /\ IdleAgg

call_Address ==
    /\ op = "Address"
    /\ result.kind = "none"
    /\ result' = Address(args.zip)
    /\ UNCHANGED <<op, args>>
    /\ UNCHANGED <<adapterVars, callVars, aggVars>>

NextAddress == call_Address

SpecAddress == InitAddress /\ [][NextAddress]_vars

\* The postal code as written has exactly five digits.
FiveDigits(zip) ==
    IF zip.kind = "int" THEN Len(str_int(zip.value)) = ZIP_DIGITS
    ELSE Len(zip.value) = ZIP_DIGITS /\ \A i \in 1..Len(zip.value) : IsDigit(zip.value[i])

\* C21: constructing an Address succeeds if and only if its postal code is
\* exactly 5 digits, and every Address that exists has a 5-digit postal code.
C21_Address_iff_five_digits ==
    op = "Address" /\ result.kind # "none" =>
        /\ result.kind = "Address" <=> FiveDigits(args.zip)
        /\ result.kind = "Address" => Len(str_int(result.zip)) = ZIP_DIGITS

(***************************************************************************)
(* schemas.py: PriceDetails, and api/byteMe.py: the price details of one   *)
(* ByteMeProduct.  PriceDetails declares its fields and no validator: the  *)
(* object holds what the constructor was given.                            *)
(***************************************************************************)
PriceDetails(monthly_cost, monthly_cost_with_discount, monthly_savings, monthly_cost_after_promotion, total_savings, discount_percentage) ==
    [kind |-> "PriceDetails",
     monthly_cost |-> monthly_cost,
     monthly_cost_with_discount |-> monthly_cost_with_discount,
     monthly_savings |-> monthly_savings,
     monthly_cost_after_promotion |-> monthly_cost_after_promotion,
     total_savings |-> total_savings,
     setup_fee |-> None,
     discount_percentage |-> discount_percentage]

ByteMe_PROMOTION_LENGTH == 24

\* A voucher of any type but "absolute" taken as a percentage.
ByteMe_discount_result_percentage_by_default(raw_offer) ==
    IF raw_offer.voucher_type = "absolute"
    THEN calculate_discount(ByteMe_PROMOTION_LENGTH, raw_offer.monthly_cost_in_cent, None, None, Some(raw_offer.voucher_value))
    ELSE calculate_discount(ByteMe_PROMOTION_LENGTH, raw_offer.monthly_cost_in_cent, Some(raw_offer.voucher_value), None, None)

\* _get_price_details: discount_result
ByteMe_discount_result(raw_offer) ==
    IF raw_offer.voucher_type = "percentage"
    THEN calculate_discount(ByteMe_PROMOTION_LENGTH, raw_offer.monthly_cost_in_cent, Some(raw_offer.voucher_value), None, None)
    ELSE IF raw_offer.voucher_type = "absolute"
    THEN calculate_discount(ByteMe_PROMOTION_LENGTH, raw_offer.monthly_cost_in_cent, None, None, Some(raw_offer.voucher_value))
    ELSE DiscountResult_empty

ByteMe_get_price_details(raw_offer) ==
    LET discount_result == ByteMe_discount_result(raw_offer)
    IN  IF discount_result.kind # "DiscountResult" THEN discount_result
        ELSE PriceDetails(raw_offer.monthly_cost_in_cent,
                          discount_result.monthly_cost_with_discount,
                          discount_result.monthly_discount,
                          Some(raw_offer.after_two_years_monthly_cost),
                          discount_result.total_savings,
                          discount_result.discount_percentage)

(***************************************************************************)
(* SpecByteMe: _get_price_details of one product, with a monthly cost up   *)
(* to MaxBase and a voucher of any type.                                   *)
(***************************************************************************)
VoucherTypes == {"percentage", "absolute", "none", "PERCENTAGE"}

VoucherValues == {0, 10, 15, 50, 100}

AfterTwoYears == {0, 25, 60}

ByteMeProducts ==
    [monthly_cost_in_cent : 0..MaxBase,
     after_two_years_monthly_cost : AfterTwoYears,
     voucher_type : VoucherTypes,
     voucher_value : VoucherValues]

InitByteMe ==
    /\ op = "ByteMe._get_price_details"
    /\ args \in [kind : {"ByteMe._get_price_details"}, raw_offer : ByteMeProducts]
    /\ result = [kind |-> "none"]
    /\ IdleAdapter
    /\ IdleCall
    /\ IdleAgg

call_ByteMe_get_price_details ==
    /\ op = "ByteMe._get_price_details"
    /\ result.kind = "none"
    /\ result' = ByteMe_get_price_details(args.raw_offer)
    /\ UNCHANGED <<op, args>>
    /\ UNCHANGED <<adapterVars, callVars, aggVars>>

NextByteMe == call_ByteMe_get_price_details

SpecByteMe == InitByteMe /\ [][NextByteMe]_vars

ByteMeReturned == op = "ByteMe._get_price_details" /\ result.kind # "none"

\* C22: price details built with no discount fields but with a
\* post-promotion monthly cost above the base monthly cost have monthly
\* savings and discount percentage filled in, the savings being the
\* post-promotion price less the quoted price.
C22_price_details_backfilled ==
    /\ ByteMeReturned
    /\ ByteMe_discount_result(args.raw_offer) = DiscountResult_empty
    /\ args.raw_offer.after_two_years_monthly_cost > args.raw_offer.monthly_cost_in_cent
    => /\ result.kind = "PriceDetails"
       /\ result.monthly_savings =
              Some(args.raw_offer.after_two_years_monthly_cost
                   - args.raw_offer.monthly_cost_in_cent)
       /\ result.discount_percentage # None

(***************************************************************************)
(* main.py: the order of the aggregated offers.                            *)
(***************************************************************************)
\* The place of an adapter among the gathered ones.
InvocationIndex(ad) ==
    CHOOSE i \in 1..Len(providers_to_fetch) : providers_to_fetch[i] = ad

\* C23: in the aggregated result the offers of an adapter invoked earlier
\* all precede the offers of an adapter invoked later, in whatever order
\* the adapters' fetches completed.
C23_aggregation_follows_invocation_order ==
    agg_pc = "returned" =>
        \A j1, j2 \in 1..Len(all_offers) :
            InvocationIndex(all_offers[j1][1]) < InvocationIndex(all_offers[j2][1])
                => j1 < j2

\* An adapter finished before one invoked earlier, both returned offers,
\* and the response was built.
C23_witness ==
    /\ agg_pc = "returned"
    /\ overtaken
    /\ \E i, j \in 1..Len(fetched) :
          /\ i < j
          /\ fetched[i].kind = "list" /\ fetched[i].n > 0
          /\ fetched[j].kind = "list" /\ fetched[j].n > 0

(***************************************************************************)
(* SpecSemLive: SpecSem under the scheduling of asyncio.  A network call   *)
(* returns or times out (aiohttp's ClientTimeout) and a tenacity backoff   *)
(* ends, so an attempt in flight ends; asyncio.Semaphore wakes a waiter    *)
(* when a permit is free; the event loop runs a coroutine that is ready.   *)
(***************************************************************************)
Fairness == WF_vars(NextSem)

SpecSemLive == InitSem /\ [][NextSem]_vars /\ Fairness

\* get_offers is over: it returned its list or an exception left it.
Over == pc \in {"returned", "raised"}

MaxResponseProducts == 1

\* The fields NormalizedOffer declares without a default.
NormalizedOffer_required ==
    {"provider", "offer_id", "name", "speed", "connection_type",
     "price_details", "contract_duration", "installation_service",
     "fetched_at"}

\* NormalizedOffer(**kwargs): a required field that is missing is a
\* ValidationError; a keyword the model does not declare is ignored.
NormalizedOffer(kwargs) ==
    IF NormalizedOffer_required \subseteq DOMAIN kwargs
    THEN [kind |-> "NormalizedOffer", fields |-> kwargs]
    ELSE [kind |-> "ValidationError",
          missing |-> NormalizedOffer_required \ DOMAIN kwargs]

WebWunder_PROMOTION_LENGTH == 24

\* WebWunder.normalize_offer of a product without voucher elements:
\* neither voucher branch is entered and the four discount values stay None.
\* connection_type_mapping.get(x, x) holds the four pairs of SCHEMA_MAPPING.
WebWunder_normalize_offer(raw_offer, installation_service) ==
    NormalizedOffer(
        [provider                     |-> "WebWunder",
         offer_id                     |-> raw_offer.product_id,
         name                         |-> raw_offer.provider_name,
         speed                        |-> raw_offer.speed,
         connection_type              |->
             map_connection_type(raw_offer.connection_type).value,
         monthly_cost                 |-> raw_offer.monthly_cost_in_cent,
         monthly_cost_with_discount   |-> None,
         monthly_cost_after_promotion |->
             raw_offer.monthly_cost_in_cent_from_25th_month,
         monthly_savings              |-> None,
         total_savings                |-> None,
         installation_service         |-> installation_service,
         contract_duration            |-> raw_offer.contract_duration_in_months,
         discount_percentage          |-> None,
         promotion_length             |-> WebWunder_PROMOTION_LENGTH,
         fetched_at                   |-> "now"])

WebWunderFetchReturn(installation_service, connection_type, response_text) ==
    [installation_service |-> installation_service,
     connection_type      |-> connection_type,
     response_text        |-> response_text]

\* for installation_service in [True, False]:
\*     for connection_type in self.CONNECTION_TYPES: tasks.append(...)
WebWunder_tasks ==
    [i \in 1..(Len(WebWunder_INSTALLATION) * Len(WebWunder_CONNECTION_TYPES)) |->
        [installation_service |->
             WebWunder_INSTALLATION[((i - 1) \div Len(WebWunder_CONNECTION_TYPES)) + 1],
         connection_type |->
             WebWunder_CONNECTION_TYPES[((i - 1) % Len(WebWunder_CONNECTION_TYPES)) + 1]]]

\* _parse_xml_response: ET.fromstring, then one WebWunderProduct for every
\* ns2:products element.
WebWunder_parse_xml_response(response) ==
    IF response.kind = "malformed" THEN [kind |-> "ParseError"]
    ELSE [kind |-> "list", value |-> response.products]

\* The loop over the gathered results, from result idx on.
RECURSIVE WebWunder_result_loop_from(_, _, _)
WebWunder_result_loop_from(gathered, idx, processed_products) ==
    IF idx > Len(gathered) THEN [kind |-> "list", value |-> processed_products]
    ELSE LET res == gathered[idx] IN
         IF res.response_text.kind = "empty"
         THEN WebWunder_result_loop_from(gathered, idx + 1, processed_products)
         ELSE LET raw_offers == WebWunder_parse_xml_response(res.response_text) IN
              IF raw_offers.kind # "list"
              THEN [kind |-> "raised", exc |-> raw_offers.kind]
              ELSE IF raw_offers.value = <<>>
              THEN WebWunder_result_loop_from(gathered, idx + 1, processed_products)
              ELSE LET normalized ==
                           [k \in 1..Len(raw_offers.value) |->
                               WebWunder_normalize_offer(raw_offers.value[k],
                                                         res.installation_service)]
                       failed == {k \in 1..Len(normalized) :
                                      normalized[k].kind # "NormalizedOffer"}
                   IN  IF failed # {}
                       THEN [kind |-> "raised",
                             exc |-> normalized[CHOOSE k \in failed :
                                         \A j \in failed : k <= j].kind]
                       ELSE WebWunder_result_loop_from(gathered, idx + 1,
                                processed_products \o normalized)

WebWunderProducts ==
    {[product_id |-> id, provider_name |-> "WebWunder Basic", speed |-> 100,
      monthly_cost_in_cent |-> 2999,
      monthly_cost_in_cent_from_25th_month |-> 3499,
      contract_duration_in_months |-> 24,
      connection_type |-> <<"D", "S", "L">>] :
         id \in {"101"}}

ResponseTexts ==
    {[kind |-> "empty"], [kind |-> "malformed"]} \cup
    {[kind |-> "xml", products |-> ps] :
         ps \in UNION {[1..n -> WebWunderProducts] : n \in 0..MaxResponseProducts}}

InitWebWunder ==
    /\ op = "WebWunder.get_offers"
    /\ args = [kind |-> "NetworkRequestData"]
    /\ result = [kind |-> "none"]
    /\ IdleAdapter
    /\ IdleCall
    /\ IdleAgg

\* get_offers up to the gather: one _fetch_products per task.
WebWunder_create_tasks ==
    /\ op = "WebWunder.get_offers"
    /\ result.kind = "none"
    /\ result' = [kind |-> "tasks", tasks |-> WebWunder_tasks]
    /\ UNCHANGED <<op, args>>
    /\ UNCHANGED <<adapterVars, callVars, aggVars>>

\* asyncio.gather returns the WebWunderFetchReturn of every task, in task
\* order.
WebWunder_gather ==
    /\ op = "WebWunder.get_offers"
    /\ result.kind = "tasks"
    /\ \E texts \in [1..Len(result.tasks) -> ResponseTexts] :
          result' = [kind |-> "results", tasks |-> result.tasks,
                     results |-> [i \in 1..Len(result.tasks) |->
                         WebWunderFetchReturn(
                             result.tasks[i].installation_service,
                             result.tasks[i].connection_type, texts[i])]]
    /\ UNCHANGED <<op, args>>
    /\ UNCHANGED <<adapterVars, callVars, aggVars>>

\* The rest of get_offers: it returns processed_products or an exception
\* leaves it.
WebWunder_result_loop ==
    /\ op = "WebWunder.get_offers"
    /\ result.kind = "results"
    /\ LET out == WebWunder_result_loop_from(result.results, 1, <<>>) IN
       result' = [kind |-> out.kind, tasks |-> result.tasks,
                  results |-> result.results, out |-> out]
    /\ UNCHANGED <<op, args>>
    /\ UNCHANGED <<adapterVars, callVars, aggVars>>

NextWebWunder == WebWunder_create_tasks \/ WebWunder_gather \/ WebWunder_result_loop

SpecWebWunder == InitWebWunder /\ [][NextWebWunder]_vars

WebWunderOver == op = "WebWunder.get_offers" /\ result.kind \in {"list", "raised"}

\* The responses are all well-formed envelopes or empty texts.
WellFormedResponses ==
    \A i \in 1..Len(result.results) :
        result.results[i].response_text.kind \in {"empty", "xml"}

\* The products in the response of sub-request i.
ProductsOf(i) ==
    IF result.results[i].response_text.kind = "xml"
    THEN result.results[i].response_text.products ELSE <<>>

\* Every product of sub-request i is among the returned offers, with the
\* installation flag of that sub-request.
ReturnedWithFlag(i) ==
    /\ result.kind = "list"
    /\ \A k \in 1..Len(ProductsOf(i)) :
          \E j \in 1..Len(result.out.value) :
             /\ result.out.value[j].fields.offer_id = ProductsOf(i)[k].product_id
             /\ result.out.value[j].fields.installation_service
                    = result.tasks[i].installation_service

\* C25: one get_offers call of WebWunder issues one sub-request for each of
\* the 8 pairs (connection type, installation flag), and the offers of the
\* responses are returned carrying the installation flag of the sub-request
\* whose response contained them.
C25_one_subrequest_per_pair_offers_carry_flag ==
    /\ result.kind \in {"tasks", "results", "list", "raised"} =>
          /\ Len(result.tasks) = 8
          /\ \A it \in {TRUE, FALSE}, ct \in {"DSL", "CABLE", "FIBER", "MOBILE"} :
                Cardinality({i \in 1..Len(result.tasks) :
                    result.tasks[i] = [installation_service |-> it,
                                       connection_type |-> ct]}) = 1
    /\ (WebWunderOver /\ WellFormedResponses) =>
          \A i \in 1..Len(result.results) : ReturnedWithFlag(i)

\* C26: a well-formed WebWunder response with zero product elements for
\* one combination contributes no offer and raises no error, and the
\* offers of the other combinations are still returned.
C26_zero_products_is_valid_empty_result ==
    (/\ WebWunderOver /\ WellFormedResponses
     /\ \E i \in 1..Len(result.results) :
           /\ result.results[i].response_text.kind = "xml"
           /\ ProductsOf(i) = <<>>)
    => \A i \in 1..Len(result.results) : ReturnedWithFlag(i)

(***************************************************************************)
(* VerbynDich: the pages of one get_offers call.                           *)
(***************************************************************************)
\* C27: one get_offers call of VerbynDich creates a sub-request for every
\* page number 0..16 (17 pages); none of them is dropped when another one
\* fails, so that all of them have run when get_offers returns, which it
\* always does; and each page contributes at most one offer.
C27_VerbynDich_requests_every_page ==
    (adapter = "VerbynDich" /\ pc # "start") =>
        /\ pc \in {"gather", "returned"}
        /\ Len(VerbynDich_pages) = 17
        /\ {VerbynDich_pages[i] : i \in 1..Len(VerbynDich_pages)} = 0..16
        /\ waiting + InFlight + Finished = Len(VerbynDich_pages)
        /\ pc = "returned" =>
              /\ Finished = Len(VerbynDich_pages)
              /\ offers = results["record"]
              /\ offers <= served
              /\ offers <= Len(VerbynDich_pages)

\* get_offers of VerbynDich returned offers of some pages although the
\* sub-request of another page gave up after its last attempt.
C27_witness ==
    /\ adapter = "VerbynDich" /\ pc = "returned"
    /\ results["RetryError"] > 0
    /\ offers > 0
    /\ refused > 0

(***************************************************************************)
(* ServusSpeed: the two phases of one get_offers call.                     *)
(***************************************************************************)
\* The detail sub-requests of the call: waiting, in flight or finished.
DetailRequests ==
    IF pc = "fetch" THEN waiting + Finished ELSE waiting + InFlight + Finished

\* C28: in ServusSpeed no detail request exists before phase 1 has
\* returned; after it the detail requests are one for each identifier of
\* the phase-1 list and no other; and when phase 1 yields an empty list
\* get_offers returns the empty list without any detail request.
C28_ServusSpeed_details_follow_phase_one ==
    (adapter = "ServusSpeed" /\ pc # "start") =>
        /\ pc = "fetch" => (DetailRequests = 0 /\ InFlight = 1 /\ product_ids = 0)
        /\ pc = "gather" =>
              /\ product_ids > 0
              /\ DetailRequests = product_ids
              /\ {ServusSpeed_tasks(product_ids)[i] : i \in 1..product_ids}
                     = 1..product_ids
        /\ pc \in {"returned", "raised"} => DetailRequests = product_ids
        /\ (pc = "returned" /\ product_ids = 0) => (offers = 0 /\ served = 0)

\* Phase 1 returned a list of several identifiers, every detail request
\* has finished and get_offers returned offers.
C28_witness ==
    /\ adapter = "ServusSpeed" /\ pc = "returned"
    /\ product_ids > 1 /\ Finished = product_ids /\ offers > 0

(***************************************************************************)
(* SpecServus: ServusSpeed.normalize_offer of one ServusSpeedProduct.  The *)
(* record's three integers are unconstrained in the schema; costs and      *)
(* discounts are non-negative cents, the contract duration a number of     *)
(* months.                                                                 *)
(***************************************************************************)
SERVUSSPEED_NAME == <<"S", "e", "r", "v", "u", "s", " ", "S", "p", "e", "e", "d">>

\* str.replace(' ', '_')
replace_spaces(str) == [i \in DOMAIN str |-> IF str[i] = " " THEN "_" ELSE str[i]]

\* f"{self.name}_{product_name.replace(' ', '_').lower()}"
ServusSpeed_generate_offer_id(product_name) ==
    SERVUSSPEED_NAME \o <<"_">> \o lower(replace_spaces(product_name))

ServusSpeed_normalize_offer(raw_offer) ==
    LET discount_result ==
            calculate_discount(raw_offer.product_info.contract_duration_in_months,
                               raw_offer.pricing_details.monthly_cost_in_cent,
                               None, None, Some(raw_offer.discount))
    IN  IF discount_result.kind # "DiscountResult" THEN discount_result
        ELSE NormalizedOffer(
            [provider             |-> SERVUSSPEED_NAME,
             offer_id             |-> ServusSpeed_generate_offer_id(raw_offer.provider_name),
             name                 |-> raw_offer.provider_name,
             speed                |-> raw_offer.product_info.speed,
             connection_type      |->
                 map_connection_type(raw_offer.product_info.connection_type).value,
             price_details        |->
                 PriceDetails(raw_offer.pricing_details.monthly_cost_in_cent,
                              discount_result.monthly_cost_with_discount,
                              discount_result.monthly_discount,
                              None,
                              discount_result.total_savings,
                              discount_result.discount_percentage),
             contract_duration    |-> raw_offer.product_info.contract_duration_in_months,
             installation_service |-> raw_offer.pricing_details.installation_service,
             max_age              |-> raw_offer.product_info.max_age,
             tv_service           |-> raw_offer.product_info.tv,
             promotion_length     |-> raw_offer.product_info.contract_duration_in_months,
             data_limit           |-> raw_offer.product_info.limit_from,
             fetched_at           |-> "now"])

ContractDurations == {0, 1, 12, 24}

ServusSpeedProducts ==
    [provider_name : {<<"S", "p", "e", "e", "d", " ", "M">>},
     product_info : [speed : {250},
                     contract_duration_in_months : ContractDurations,
                     connection_type : {<<"F", "i", "b", "e", "r">>},
                     tv : {None}, limit_from : {None}, max_age : {None}],
     pricing_details : [monthly_cost_in_cent : 0..MaxBase,
                        installation_service : {TRUE}],
     discount : 0..MaxDiscount]

InitServus ==
    /\ op = "ServusSpeed.normalize_offer"
    /\ args \in ServusSpeedProducts
    /\ result = [kind |-> "none"]
    /\ IdleAdapter
    /\ IdleCall
    /\ IdleAgg

call_ServusSpeed_normalize_offer ==
    /\ op = "ServusSpeed.normalize_offer"
    /\ result.kind = "none"
    /\ result' = ServusSpeed_normalize_offer(args)
    /\ UNCHANGED <<op, args>>
    /\ UNCHANGED <<adapterVars, callVars, aggVars>>

NextServus == call_ServusSpeed_normalize_offer

SpecServus == InitServus /\ [][NextServus]_vars

\* C29: normalizing a ServusSpeed record never fails, and a record with a
\* voucher gets monthly savings = discount // contractDuration, discounted
\* monthly cost = base - monthly savings and promotion length = contract
\* duration.
C29_ServusSpeed_voucher_over_contract_duration ==
    (op = "ServusSpeed.normalize_offer" /\ result.kind # "none") =>
        /\ result.kind = "NormalizedOffer"
        /\ result.fields.promotion_length
               = args.product_info.contract_duration_in_months
        /\ (args.discount > 0 /\ args.product_info.contract_duration_in_months > 0) =>
              LET savings == args.discount
                                 \div args.product_info.contract_duration_in_months
              IN  /\ result.fields.price_details.monthly_savings = Some(savings)
                  /\ result.fields.price_details.monthly_cost_with_discount
                         = Some(args.pricing_details.monthly_cost_in_cent - savings)

(***************************************************************************)
(* ByteMe: the path a voucher takes.                                       *)
(***************************************************************************)
\* The four discount fields of the price details are all absent.
NoDiscountFields ==
    /\ result.monthly_savings = None
    /\ result.monthly_cost_with_discount = None
    /\ result.total_savings = None
    /\ result.discount_percentage = None

\* C30: a ByteMe voucher takes one path only: type "percentage" the
\* percentage path (the total is the monthly discount over 24 months),
\* type "absolute" the absolute path (the total is the voucher value, the
\* monthly discount its 24th part); any other type, or no voucher value,
\* leaves all four discount fields absent.
C30_voucher_takes_one_path ==
    (ByteMeReturned /\ result.kind = "PriceDetails") =>
        LET o    == args.raw_offer
            base == o.monthly_cost_in_cent
            v    == o.voucher_value
        IN  /\ (o.voucher_type = "percentage" /\ v > 0) =>
                  /\ result.monthly_savings # None
                  /\ result.monthly_savings[1] \in
                         {(base * v) \div 100, ((base * v) \div 100) - 1}
                  /\ result.total_savings =
                         Some(ByteMe_PROMOTION_LENGTH * result.monthly_savings[1])
                  /\ result.monthly_cost_with_discount =
                         Some(base - result.monthly_savings[1])
            /\ (o.voucher_type = "absolute" /\ v > 0) =>
                  /\ result.monthly_savings = Some(v \div ByteMe_PROMOTION_LENGTH)
                  /\ result.total_savings = Some(v)
                  /\ result.monthly_cost_with_discount =
                         Some(base - (v \div ByteMe_PROMOTION_LENGTH))
            /\ (o.voucher_type \notin {"percentage", "absolute"} \/ v = 0) =>
                  NoDiscountFields

\* An absolute voucher of 50 cents on a product: 2 cents a month over 24
\* months, 50 cents in total.
C30_witness ==
    /\ ByteMeReturned /\ result.kind = "PriceDetails"
    /\ args.raw_offer.voucher_type = "absolute"
    /\ args.raw_offer.voucher_value = 50
    /\ result.monthly_savings = Some(2)
    /\ result.total_savings = Some(50)

(***************************************************************************)
(* VerbynDich: the age restriction of a description and the max_age of    *)
(* the normalized offer.                                                   *)
(***************************************************************************)
\* C31: when the description of a page states an age restriction "nur für
\* Personen unter N Jahren", the offer normalize_offer returns has max_age
\* N; when it states none, max_age is None.
C31_max_age_is_the_stated_age_restriction ==
    \A i \in Processed :
        result.results[i].kind = "NormalizedOffer" =>
            LET age_match ==
                    re_search("age_restriction", DescriptionOf(args.pages[i]))
            IN  result.results[i].max_age = optional_int(age_match, 1)

(***************************************************************************)
(* The semaphore of VerbynDich and ServusSpeed: permits taken and handed   *)
(* back.                                                                   *)
(***************************************************************************)
\* asyncio.Semaphore(self.CONCURRENCY_LIMIT) has been created by get_offers.
SemaphoreCreated ==
    /\ UsesSemaphore(adapter)
    /\ pc \in {"gather", "returned", "raised"}
    /\ adapter = "ServusSpeed" => product_ids > 0

\* C32: in VerbynDich and ServusSpeed the free permits always stay between
\* 0 and the limit, the permits not free are exactly those held by the
\* sub-requests inside the wrapped method (a sub-request that ended with an
\* offer, an empty result or an exception has handed its permit back), and
\* all permits are free when get_offers is over.
C32_every_permit_is_released ==
    SemaphoreCreated =>
        /\ sem \in 0..ConcurrencyLimit(adapter)
        /\ sem + InFlight = ConcurrencyLimit(adapter)
        /\ pc \in {"returned", "raised"} => sem = ConcurrencyLimit(adapter)

\* get_offers returned after sub-requests ended with an offer, with an
\* empty result and with RetryError, and every permit is free again.
C32_witness ==
    /\ SemaphoreCreated /\ pc = "returned"
    /\ results["record"] > 0 /\ results["empty"] > 0
    /\ results["RetryError"] > 0
    /\ sem = ConcurrencyLimit(adapter)

(***************************************************************************)
(* DiscountCalculator: the monthly discount against the total savings.     *)
(***************************************************************************)
\* C33: for every result calculate_discount returns for a voucher, with a
\* promotion length L > 0 and non-negative inputs,
\* monthly_discount * L <= total_savings < (monthly_discount + 1) * L.
C33_monthly_and_total_agree_within_a_month ==
    PercentagePath \/ AbsolutePath =>
        LET L == args.promotion_length
            monthly_discount == result.monthly_discount[1]
            total_savings == result.total_savings[1]
        IN  /\ monthly_discount * L <= total_savings
            /\ total_savings < (monthly_discount + 1) * L

\* A percentage voucher of 24 months whose total was cut by the cap to less
\* than one cent a month.
C33_witness ==
    /\ PercentagePath
    /\ args.promotion_length = DEFAULT_PROMOTION_LENGTH
    /\ args.max_discount_in_cent = Some(2)
    /\ result.total_savings = Some(2)
    /\ result.monthly_discount = Some(0)

(***************************************************************************)
(* api/webwunder.py: the voucher computation written inline in             *)
(* normalize_offer, against DiscountCalculator(24).calculate_discount.     *)
(* Two more float operations: a float divided by an int, and an int minus  *)
(* a float.                                                                *)
(***************************************************************************)
\* Long division of the digits ds[i..] by d, from remainder r.
RECURSIVE DivLong(_, _, _, _, _)
DivLong(ds, d, i, r, out) ==
    IF i > Len(ds) THEN [digits |-> out, rem |-> r]
    ELSE DivLong(ds, d, i + 1, (256 * r + ds[i]) % d,
                 Append(out, (256 * r + ds[i]) \div d))

\* x / d of a float x >= 0 and an int d > 0, rounded.
float_div(x, d) ==
    LET whole == DivLong(DigitsOfBits(x.bits), d, 1, 0, <<>>)
        q     == DivDigits(whole.digits, whole.rem, d, FractionDigits(d))
    IN  IF x.bits = <<>> THEN FloatZero
        ELSE RoundBits(Normalize(BitsOfDigits(q.digits)),
                       x.exp - 8 * FractionDigits(d), q.rem # 0)

\* a - b - borrow of two digit sequences of one length, a >= b.
RECURSIVE SubDigits(_, _, _)
SubDigits(a, b, borrow) ==
    IF a = <<>> THEN <<>>
    ELSE LET t == a[Len(a)] - b[Len(b)] - borrow IN
         Append(SubDigits(SubSeq(a, 1, Len(a) - 1), SubSeq(b, 1, Len(b) - 1),
                          IF t < 0 THEN 1 ELSE 0),
                IF t < 0 THEN t + 256 ELSE t)

\* n - x of an int n and a float x, 0 <= x <= n, rounded.
float_rsub(n, x) ==
    IF x.bits = <<>> \/ x.exp >= 0
    THEN [bits |-> IntBits(n - int_of_float(x)), exp |-> 0]
    ELSE LET a == DigitsOfBits(IntBits(n) \o [i \in 1..(0 - x.exp) |-> 0])
             b == DigitsOfBits([i \in 1..(8 * Len(a) - Len(x.bits)) |-> 0]
                               \o x.bits)
         IN  RoundBits(Normalize(BitsOfDigits(SubDigits(a, b, 0))),
                       x.exp, FALSE)

\* A Python number: an int, or a float.
PyInt(n)   == [type |-> "int", value |-> n]
PyFloat(x) == [type |-> "float", value |-> x]

\* The float x has the value of the int n.
float_is_int(x, n) ==
    /\ int_of_float(x) = n
    /\ x.exp < 0 =>
          \A i \in 1..Len(x.bits) : i > Len(x.bits) + x.exp => x.bits[i] = 0

\* a == b of a Python number and an int.
py_eq(a, n) ==
    IF a.type = "int" THEN a.value = n ELSE float_is_int(a.value, n)

\* The four discount values normalize_offer has in its local variables when
\* it reaches the NormalizedOffer constructor, or the exception a voucher
\* branch raises.  raw_offer_dict is model_dump() of the product: every
\* field is a key, an absent voucher field has the value None, so
\* .get("max_discount_in_cent", 10**10) is the value of the key.
WebWunder_voucher_values(raw_offer_dict) ==
    LET base_monthly_cost == raw_offer_dict.monthly_cost_in_cent
    IN  IF truthy(raw_offer_dict.voucher_percentage)
        THEN LET voucher_percentage == raw_offer_dict.voucher_percentage[1]
                 max_discount == raw_offer_dict.max_discount_in_cent
                 monthly_discount_temp ==
                     int_of_float(float_mul(base_monthly_cost,
                                            truediv(voucher_percentage, 100)))
                 complete_discount ==
                     monthly_discount_temp * WebWunder_PROMOTION_LENGTH
                 absolute_discount == min(complete_discount, max_discount[1])
                 monthly_discount ==
                     truediv(absolute_discount, WebWunder_PROMOTION_LENGTH)
             IN  IF max_discount = None THEN [kind |-> "TypeError"]
                 ELSE IF base_monthly_cost = 0 THEN [kind |-> "ZeroDivisionError"]
                 ELSE [kind |-> "values",
                       monthly_discount |-> Some(PyFloat(monthly_discount)),
                       monthly_cost_with_discount |->
                           Some(PyFloat(float_rsub(base_monthly_cost,
                                                   monthly_discount))),
                       total_savings |-> Some(PyInt(absolute_discount)),
                       discount_percentage |->
                           Some(PyInt(int_of_float(float_mul(100,
                               float_div(monthly_discount, base_monthly_cost)))))]
        ELSE IF truthy(raw_offer_dict.discount_in_cent)
        THEN LET absolute_discount == raw_offer_dict.discount_in_cent[1]
                 monthly_discount ==
                     int_of_float(truediv(absolute_discount,
                                          WebWunder_PROMOTION_LENGTH))
             IN  IF base_monthly_cost = 0 THEN [kind |-> "ZeroDivisionError"]
                 ELSE [kind |-> "values",
                       monthly_discount |-> Some(PyInt(monthly_discount)),
                       monthly_cost_with_discount |->
                           Some(PyInt(base_monthly_cost - monthly_discount)),
                       total_savings |-> Some(PyInt(absolute_discount)),
                       discount_percentage |->
                           Some(PyInt(discount_percentage_of(monthly_discount,
                                                             base_monthly_cost)))]
        ELSE [kind |-> "values",
              monthly_discount |-> None, monthly_cost_with_discount |-> None,
              total_savings |-> None, discount_percentage |-> None]

(***************************************************************************)
(* SpecVoucher: the voucher branches of WebWunder.normalize_offer for one  *)
(* product with a base cost above 0: a percentage voucher with or without  *)
(* a cap, an absolute voucher, or no voucher.                              *)
(***************************************************************************)
VoucherCaps == Optional((0..MaxCap) \cup {WebWunder_PROMOTION_LENGTH})

VoucherProducts ==
    [kind : {"raw_offer_dict"},
     monthly_cost_in_cent : 1..MaxBase,
     voucher_percentage : {Some(x) : x \in 1..MaxPercentage},
     max_discount_in_cent : VoucherCaps,
     discount_in_cent : {None}]
    \cup
    [kind : {"raw_offer_dict"},
     monthly_cost_in_cent : 1..MaxBase,
     voucher_percentage : {None, Some(0)},
     max_discount_in_cent : {None},
     discount_in_cent : Optional(0..MaxDiscount)]

InitVoucher ==
    /\ op = "WebWunder.normalize_offer"
    /\ args \in VoucherProducts
    /\ result = [kind |-> "none"]
    /\ IdleAdapter
    /\ IdleCall
    /\ IdleAgg

WebWunder_voucher_branches ==
    /\ op = "WebWunder.normalize_offer"
    /\ result.kind = "none"
    /\ result' = WebWunder_voucher_values(args)
    /\ UNCHANGED <<op, args>>
    /\ UNCHANGED <<adapterVars, callVars, aggVars>>

NextVoucher == WebWunder_voucher_branches

SpecVoucher == InitVoucher /\ [][NextVoucher]_vars

\* What DiscountCalculator(24).calculate_discount returns for the product.
CalculatorResult ==
    calculate_discount(WebWunder_PROMOTION_LENGTH, args.monthly_cost_in_cent,
                       args.voucher_percentage, args.max_discount_in_cent,
                       args.discount_in_cent)

\* The inline value and the calculator's are both None or are equal numbers.
SameValue(inline, calculated) ==
    IF inline = None \/ calculated = None THEN inline = calculated
    ELSE py_eq(inline[1], calculated[1])

VoucherDone == op = "WebWunder.normalize_offer" /\ result.kind # "none"

\* C34: for every base cost > 0, voucher percentage, cap (present or absent)
\* and absolute discount, the voucher computation inline in
\* WebWunder.normalize_offer yields the same monthly savings, discounted
\* monthly cost, total savings and discount percentage as
\* DiscountCalculator(24).calculate_discount.
C34_inline_voucher_equals_calculator ==
    VoucherDone =>
        /\ result.kind = "values"
        /\ CalculatorResult.kind = "DiscountResult"
        /\ SameValue(result.monthly_discount, CalculatorResult.monthly_discount)
        /\ SameValue(result.monthly_cost_with_discount,
                     CalculatorResult.monthly_cost_with_discount)
        /\ SameValue(result.total_savings, CalculatorResult.total_savings)
        /\ SameValue(result.discount_percentage,
                     CalculatorResult.discount_percentage)

(***************************************************************************)
(* SpecResend: one call of PingPerfect.get_offers with the attempts of     *)
(* _fetch_products.  get_offers reads the clock, builds the body and the   *)
(* headers and opens the session with them; every attempt posts through    *)
(* that session; the clock moves on by the backoff between two attempts.   *)
(***************************************************************************)
\* wait_exponential(multiplier=1, min=2, max=60): the shortest sleep.
WAIT_MIN == 2

\* Seconds the clock may run on during one call.
MaxElapsed == 19

\* An attempt that signs the body again with the clock reading of its own.
session_post_signed_again(session, request_data, now) ==
    PingPerfect_request(request_data, now, settings)

\* session.post(self.BASE_URL, data=payload) through the session opened with
\* headers=headers: the request of an attempt made at `now`.
session_post(session, request_data, now) ==
    [headers |-> session.headers, data |-> session.data]

InitResend ==
    /\ op = "PingPerfect.get_offers"
    /\ args \in [kind : {"NetworkRequestData"}, request_data : RequestData,
                 started : {FirstClock, FirstClock + WAIT_MIN}]
    /\ result = [kind |-> "start"]
    /\ IdleAdapter
    /\ IdleCall
    /\ IdleAgg

\* get_offers up to `await self._fetch_products(...)`.
PingPerfect_get_offers ==
    /\ op = "PingPerfect.get_offers"
    /\ result.kind = "start"
    /\ result' = [kind |-> "fetch",
                  current_timestamp |-> args.started,
                  session |-> PingPerfect_request(args.request_data,
                                                  args.started, settings),
                  attempt_number |-> 1,
                  clock |-> args.started,
                  sent |-> <<>>,
                  outcome |-> "none"]
    /\ UNCHANGED <<op, args>>
    /\ UNCHANGED <<adapterVars, callVars, aggVars>>

\* One attempt of _fetch_products: the request is posted and answered;
\* after ClientResponseError tenacity sleeps and calls again.
PingPerfect_attempt ==
    /\ op = "PingPerfect.get_offers"
    /\ result.kind = "fetch"
    /\ \E a \in AnswersOf("PingPerfect._fetch_products") :
          LET r == Attempt("PingPerfect._fetch_products",
                           result.attempt_number, a)
              posted == Append(result.sent,
                               session_post(result.session, args.request_data,
                                            result.clock))
          IN  IF r = "retry"
              THEN \E sleep \in WAIT_MIN..(WAIT_MIN + 1) :
                      /\ result.clock + sleep <= args.started + MaxElapsed
                      /\ result' = [result EXCEPT
                                       !.sent = posted,
                                       !.attempt_number = @ + 1,
                                       !.clock = @ + sleep]
              ELSE result' = [result EXCEPT !.kind = "done", !.sent = posted,
                                            !.outcome = r]
    /\ UNCHANGED <<op, args>>
    /\ UNCHANGED <<adapterVars, callVars, aggVars>>

NextResend == PingPerfect_get_offers \/ PingPerfect_attempt

SpecResend == InitResend /\ [][NextResend]_vars

Attempts ==
    IF op = "PingPerfect.get_offers" /\ result.kind \in {"fetch", "done"}
    THEN result.sent ELSE <<>>

\* C35: the timestamp and the signature of PingPerfect are computed once per
\* get_offers call, before the first attempt: every attempt of the call sends
\* the body, the X-Timestamp and the X-Signature of the first attempt, which
\* are those of the clock reading taken when the call began.
C35_retries_resend_the_first_request ==
    \A i \in 1..Len(Attempts) :
        /\ Attempts[i].data = Attempts[1].data
        /\ Attempts[i].headers.x_timestamp = Attempts[1].headers.x_timestamp
        /\ Attempts[i].headers.x_signature = Attempts[1].headers.x_signature
        /\ Attempts[i].headers.x_timestamp = str_int(args.started)

\* The last of ten attempts, made 18 seconds or more after the call began,
\* carried the timestamp of the first.
C35_witness ==
    /\ Len(Attempts) = PingPerfect_stop_after_attempt
    /\ result.outcome = "RetryError"
    /\ result.clock >= args.started + WAIT_MIN * (PingPerfect_stop_after_attempt - 1)
    /\ Attempts[Len(Attempts)].headers.x_timestamp = str_int(args.started)

(***************************************************************************)
(* services/circuit_breaker.py: CircuitBreaker and the circuit_breaker     *)
(* decorator.  The row of the provider in circuit_breaker_states is None   *)
(* until _get_or_create_state inserts it; datetime.utcnow() is the reading *)
(* `now` of a clock that ticks in seconds.                                 *)
(***************************************************************************)
CLOSED    == "closed"
OPEN      == "open"
HALF_OPEN == "half_open"

\* failure_threshold: int = 5
DEFAULT_FAILURE_THRESHOLD == 5

\* The recovery timeouts, clock readings, failure counts and concurrent
\* calls enumerated.
MaxRecoveryTimeout == 2
MaxTime == 5
MaxFailureCount == 7
MaxRunning == 2

\* CircuitBreakerState(provider_name=..., failure_count=0, state=CLOSED):
\* last_state_change takes its column default, the time of the insert.
CircuitBreakerState(now) ==
    [failure_count |-> 0, last_failure_time |-> None,
     state |-> CLOSED, last_state_change |-> Some(now)]

_get_or_create_state(row, now) ==
    IF row = None THEN CircuitBreakerState(now) ELSE row[1]

_record_failure(self, state, now) ==
    LET failed == [state EXCEPT !.failure_count = @ + 1,
                                !.last_failure_time = Some(now)]
    IN  IF failed.failure_count >= self.failure_threshold /\ failed.state # OPEN
        THEN [failed EXCEPT !.state = OPEN, !.last_state_change = Some(now)]
        ELSE failed

\* A success in HALF_OPEN that closes the circuit and keeps the count.
_record_success_keeps_count(state, now) ==
    IF state.state = HALF_OPEN
    THEN [state EXCEPT !.state = CLOSED, !.last_state_change = Some(now)]
    ELSE state

_record_success(state, now) ==
    IF state.state = HALF_OPEN
    THEN [state EXCEPT !.state = CLOSED, !.failure_count = 0,
                       !.last_state_change = Some(now)]
    ELSE state

\* A timeout that counts as elapsed at once.
timeout_elapsed_at_once(self, last_state_change, now) == TRUE

\* state.last_state_change < datetime.utcnow() - timedelta(seconds=recovery_timeout)
timeout_elapsed(self, last_state_change, now) ==
    last_state_change < now - self.recovery_timeout

\* The row is_open leaves; is_open returns whether its state is OPEN.
is_open_state(self, state, now) ==
    IF /\ state.state = OPEN
       /\ state.last_state_change # None
       /\ timeout_elapsed(self, state.last_state_change[1], now)
    THEN [state EXCEPT !.state = HALF_OPEN, !.last_state_change = Some(now)]
    ELSE state

(***************************************************************************)
(* SpecBreaker: one CircuitBreaker.  Its methods are called directly or by *)
(* the wrapper of the decorator; up to MaxRunning wrapped calls run at a   *)
(* time.  `before` is the row the last operation found, `last` what the    *)
(* operation was and how it ended.                                         *)
(***************************************************************************)
InitBreaker ==
    /\ op = "CircuitBreaker"
    /\ args \in [kind : {"CircuitBreaker"},
                 failure_threshold : {1, DEFAULT_FAILURE_THRESHOLD},
                 recovery_timeout : 1..MaxRecoveryTimeout]
    /\ result = [kind |-> "circuit_breaker_states", row |-> None, now |-> 0,
                 running |-> 0, before |-> None, last |-> "none"]
    /\ IdleAdapter
    /\ IdleCall
    /\ IdleAgg

Breaker == op = "CircuitBreaker"

Tick ==
    /\ Breaker
    /\ result.now < MaxTime
    /\ result' = [result EXCEPT !.now = @ + 1, !.last = "tick"]
    /\ UNCHANGED <<op, args>>
    /\ UNCHANGED <<adapterVars, callVars, aggVars>>

is_open ==
    /\ Breaker
    /\ LET state == _get_or_create_state(result.row, result.now) IN
       result' = [result EXCEPT
                     !.row = Some(is_open_state(args, state, result.now)),
                     !.before = result.row, !.last = "is_open"]
    /\ UNCHANGED <<op, args>>
    /\ UNCHANGED <<adapterVars, callVars, aggVars>>

record_failure ==
    /\ Breaker
    /\ LET state == _get_or_create_state(result.row, result.now) IN
       /\ state.failure_count < MaxFailureCount
       /\ result' = [result EXCEPT
                        !.row = Some(_record_failure(args, state, result.now)),
                        !.before = result.row, !.last = "record_failure"]
    /\ UNCHANGED <<op, args>>
    /\ UNCHANGED <<adapterVars, callVars, aggVars>>

record_success ==
    /\ Breaker
    /\ LET state == _get_or_create_state(result.row, result.now) IN
       result' = [result EXCEPT
                     !.row = Some(_record_success(state, result.now)),
                     !.before = result.row, !.last = "record_success"]
    /\ UNCHANGED <<op, args>>
    /\ UNCHANGED <<adapterVars, callVars, aggVars>>

\* wrapper up to `await method(self, *args, **kwargs)`: is_open, then the
\* exception or the call of the method.
circuit_breaker_wrapper ==
    /\ Breaker
    /\ LET state == is_open_state(args,
                        _get_or_create_state(result.row, result.now),
                        result.now)
       IN  IF state.state = OPEN
           THEN result' = [result EXCEPT !.row = Some(state),
                              !.before = result.row, !.last = "wrapper raised"]
           ELSE /\ result.running < MaxRunning
                /\ result' = [result EXCEPT !.row = Some(state),
                                 !.running = @ + 1,
                                 !.before = result.row,
                                 !.last = "method invoked"]
    /\ UNCHANGED <<op, args>>
    /\ UNCHANGED <<adapterVars, callVars, aggVars>>

\* The method returned: record_success, return result.
method_returned ==
    /\ Breaker
    /\ result.running > 0
    /\ LET state == _get_or_create_state(result.row, result.now) IN
       result' = [result EXCEPT
                     !.row = Some(_record_success(state, result.now)),
                     !.running = @ - 1,
                     !.before = result.row, !.last = "method returned"]
    /\ UNCHANGED <<op, args>>
    /\ UNCHANGED <<adapterVars, callVars, aggVars>>

\* The method raised: record_failure, raise e.
method_raised ==
    /\ Breaker
    /\ result.running > 0
    /\ LET state == _get_or_create_state(result.row, result.now) IN
       /\ state.failure_count < MaxFailureCount
       /\ result' = [result EXCEPT
                        !.row = Some(_record_failure(args, state, result.now)),
                        !.running = @ - 1,
                        !.before = result.row, !.last = "method raised"]
    /\ UNCHANGED <<op, args>>
    /\ UNCHANGED <<adapterVars, callVars, aggVars>>

NextBreaker ==
    \/ Tick
    \/ is_open
    \/ record_failure
    \/ record_success
    \/ circuit_breaker_wrapper
    \/ method_returned
    \/ method_raised

SpecBreaker == InitBreaker /\ [][NextBreaker]_vars

\* The last operation was the wrapper of the decorator, up to the call of
\* the method.
WrapperRan == Breaker /\ result.last \in {"wrapper raised", "method invoked"}

\* The wrapper found the breaker OPEN.
FoundOpen == result.before # None /\ result.before[1].state = OPEN

\* Seconds since the state last changed, as the wrapper found it.
SinceStateChange == result.now - result.before[1].last_state_change[1]

\* C36: a method wrapped by the circuit_breaker decorator is not invoked
\* while the breaker is OPEN and its recovery timeout has not elapsed: the
\* wrapper raises without calling the method and leaves the row as it was,
\* no failure recorded; once the timeout has elapsed the breaker moves to
\* HALF_OPEN and the call is let through.
C36_open_breaker_refuses_until_timeout ==
    WrapperRan /\ FoundOpen =>
        IF SinceStateChange <= args.recovery_timeout
        THEN /\ result.last = "wrapper raised"
             /\ result.row = result.before
        ELSE /\ result.last = "method invoked"
             /\ result.row[1].state = HALF_OPEN

\* The wrapper raised for a breaker that had been OPEN for exactly the
\* recovery timeout, while an earlier call of the method was still running.
C36_witness ==
    /\ WrapperRan /\ FoundOpen
    /\ SinceStateChange = args.recovery_timeout
    /\ result.last = "wrapper raised"
    /\ result.running > 0
    /\ result.row[1].failure_count = args.failure_threshold

\* The last operation was is_open, record_failure or record_success, called
\* directly or by the wrapper.
FailureRecorded == result.last \in {"record_failure", "method raised"}

SuccessRecorded == result.last \in {"record_success", "method returned"}

\* The state the last operation found: CLOSED for a row not yet inserted.
StateBefore ==
    IF result.before = None THEN CLOSED ELSE result.before[1].state

\* C37: after any sequence of is_open, record_failure and record_success on
\* one circuit breaker, whenever the state is CLOSED the failure count is
\* below the failure threshold; the state becomes OPEN exactly when a
\* recorded failure brings the count to the threshold or above; and a
\* success recorded in HALF_OPEN sets the state to CLOSED with failure
\* count 0.
C37_breaker_state_follows_failure_count ==
    Breaker /\ result.row # None =>
        LET state == result.row[1] IN
        /\ state.state = CLOSED => state.failure_count < args.failure_threshold
        /\ (state.state = OPEN /\ StateBefore # OPEN /\ result.last # "tick")
              <=> (/\ FailureRecorded
                   /\ StateBefore # OPEN
                   /\ state.failure_count >= args.failure_threshold)
        /\ SuccessRecorded /\ StateBefore = HALF_OPEN =>
              state.state = CLOSED /\ state.failure_count = 0

\* A success recorded in HALF_OPEN closed a breaker that had counted more
\* failures than its threshold.
C37_witness ==
    /\ Breaker /\ result.row # None
    /\ SuccessRecorded /\ StateBefore = HALF_OPEN
    /\ result.before[1].failure_count > args.failure_threshold
    /\ args.failure_threshold = DEFAULT_FAILURE_THRESHOLD
    /\ result.row[1].state = CLOSED /\ result.row[1].failure_count = 0

(***************************************************************************)
(* services/cache.py: CacheService over the table provider_offers.  The    *)
(* table is the sequence of its rows in the order of their insertion;      *)
(* datetime.utcnow() is the reading `now` of a clock in seconds.           *)
(***************************************************************************)
\* core/config.py: CACHE_TTL: int = 3600
CACHE_TTL == 3600

\* The clock moves in steps of TickSeconds, MaxTicks times at most; the
\* table holds MaxStoredRows rows at most.
TickSeconds == 1800
MaxTicks == 2
MaxStoredRows == 2

\* The rows select(ProviderOffer).where(provider_name == ..., offer_id == ...)
\* finds: their places in the table.
select_offer(table, provider_name, offer_id) ==
    {i \in 1..Len(table) : /\ table[i].provider_name = provider_name
                           /\ table[i].offer_id = offer_id}

_is_cache_valid(offer, now) ==
    IF offer.cache_expires_at = None THEN FALSE
    ELSE now < offer.cache_expires_at[1]

\* A query that leaves out the is_active filter.
get_cached_offers_inactive_too(table, provider_name, now) ==
    LET selected == SelectSeq(table, LAMBDA offer :
                      /\ offer.provider_name = provider_name
                      /\ offer.fetch_status = "success")
        valid_offers == SelectSeq(selected, LAMBDA offer : _is_cache_valid(offer, now))
    IN  [i \in 1..Len(valid_offers) |-> valid_offers[i].normalized_data]

get_cached_offers(table, provider_name, now) ==
    LET selected == SelectSeq(table, LAMBDA offer :
                      /\ offer.provider_name = provider_name
                      /\ offer.is_active = TRUE
                      /\ offer.fetch_status = "success")
        valid_offers == SelectSeq(selected, LAMBDA offer : _is_cache_valid(offer, now))
    IN  [i \in 1..Len(valid_offers) |-> valid_offers[i].normalized_data]

\* The table cache_offer commits; the row found keeps its is_active.
cache_offer(table, provider_name, offer_id, raw_data, normalized_data, now) ==
    LET cache_expires_at == now + CACHE_TTL
        found == select_offer(table, provider_name, offer_id)
    IN  IF found # {}
        THEN [i \in 1..Len(table) |->
                 IF i \in found
                 THEN [table[i] EXCEPT !.raw_data = Some(raw_data),
                                       !.normalized_data = Some(normalized_data),
                                       !.cache_expires_at = Some(cache_expires_at),
                                       !.last_fetched = Some(now),
                                       !.fetch_status = "success"]
                 ELSE table[i]]
        ELSE Append(table,
                    [provider_name |-> provider_name, offer_id |-> offer_id,
                     raw_data |-> Some(raw_data),
                     normalized_data |-> Some(normalized_data),
                     cache_expires_at |-> Some(cache_expires_at),
                     last_fetched |-> Some(now),
                     fetch_status |-> "success", is_active |-> TRUE])

mark_offer_inactive(table, provider_name, offer_id) ==
    LET found == select_offer(table, provider_name, offer_id)
    IN  [i \in 1..Len(table) |->
            IF i \in found THEN [table[i] EXCEPT !.is_active = FALSE]
            ELSE table[i]]

record_fetch_error(table, provider_name, offer_id, now) ==
    LET found == select_offer(table, provider_name, offer_id)
    IN  IF found # {}
        THEN [i \in 1..Len(table) |->
                 IF i \in found
                 THEN [table[i] EXCEPT !.fetch_status = "error",
                                       !.last_fetched = Some(now)]
                 ELSE table[i]]
        ELSE Append(table,
                    [provider_name |-> provider_name, offer_id |-> offer_id,
                     raw_data |-> None, normalized_data |-> None,
                     cache_expires_at |-> None,
                     last_fetched |-> Some(now),
                     fetch_status |-> "error", is_active |-> FALSE])

(***************************************************************************)
(* SpecCache: calls of the CacheService methods in any order, one at a     *)
(* time, while the clock moves on.  `cached` is the last cache_offer call  *)
(* with the expiry it set, until another call for the same provider and    *)
(* offer id follows; `returned` is what the last get_cached_offers         *)
(* returned.                                                               *)
(***************************************************************************)
CacheProviders == {"ByteMe", "WebWunder"}

CacheOfferIds == {"o1", "o2"}

NormalizedData == {"n1", "n2"}

InitCache ==
    /\ op = "CacheService"
    /\ args = [kind |-> "none"]
    /\ result = [kind |-> "provider_offers", table |-> <<>>, now |-> 0,
                 cached |-> None, returned |-> None]
    /\ IdleAdapter
    /\ IdleCall
    /\ IdleAgg

Cache == op = "CacheService"

\* The call is for the provider and offer id of the cache_offer remembered.
SameOffer(provider_name, offer_id) ==
    /\ result.cached # None
    /\ result.cached[1].provider_name = provider_name
    /\ result.cached[1].offer_id = offer_id

CacheTick ==
    /\ Cache
    /\ result.now < MaxTicks * TickSeconds
    /\ result' = [result EXCEPT !.now = @ + TickSeconds]
    /\ UNCHANGED <<op, args>>
    /\ UNCHANGED <<adapterVars, callVars, aggVars>>

call_cache_offer ==
    /\ Cache
    /\ \E provider_name \in CacheProviders, offer_id \in CacheOfferIds,
          normalized_data \in NormalizedData :
          LET table == cache_offer(result.table, provider_name, offer_id,
                                   "raw", normalized_data, result.now)
          IN  /\ Len(table) <= MaxStoredRows
              /\ result' = [result EXCEPT
                               !.table = table,
                               !.cached = Some([provider_name |-> provider_name,
                                                offer_id |-> offer_id,
                                                normalized_data |-> normalized_data,
                                                cache_expires_at |->
                                                    result.now + CACHE_TTL])]
    /\ UNCHANGED <<op, args>>
    /\ UNCHANGED <<adapterVars, callVars, aggVars>>

call_mark_offer_inactive ==
    /\ Cache
    /\ \E provider_name \in CacheProviders, offer_id \in CacheOfferIds :
          /\ result' = [result EXCEPT
                           !.table = mark_offer_inactive(result.table,
                                                         provider_name, offer_id),
                           !.cached = IF SameOffer(provider_name, offer_id)
                                      THEN None ELSE @]
    /\ UNCHANGED <<op, args>>
    /\ UNCHANGED <<adapterVars, callVars, aggVars>>

call_record_fetch_error ==
    /\ Cache
    /\ \E provider_name \in CacheProviders, offer_id \in CacheOfferIds :
          LET table == record_fetch_error(result.table, provider_name,
                                          offer_id, result.now)
          IN  /\ Len(table) <= MaxStoredRows
              /\ result' = [result EXCEPT
                               !.table = table,
                               !.cached = IF SameOffer(provider_name, offer_id)
                                          THEN None ELSE @]
    /\ UNCHANGED <<op, args>>
    /\ UNCHANGED <<adapterVars, callVars, aggVars>>

call_get_cached_offers ==
    /\ Cache
    /\ \E provider_name \in CacheProviders :
          /\ result' = [result EXCEPT
                           !.returned = Some(get_cached_offers(result.table,
                                                 provider_name, result.now))]
    /\ UNCHANGED <<op, args>>
    /\ UNCHANGED <<adapterVars, callVars, aggVars>>

NextCache ==
    \/ CacheTick
    \/ call_cache_offer
    \/ call_mark_offer_inactive
    \/ call_record_fetch_error
    \/ call_get_cached_offers

SpecCache == InitCache /\ [][NextCache]_vars

\* C38: after cache_offer(provider, offer_id, ...) completes,
\* get_cached_offers(provider) returns that offer's normalized data until
\* its expiry time, whichever calls of cache_offer, mark_offer_inactive and
\* record_fetch_error preceded it, and the table holds at most one row per
\* (provider, offer_id).
C38_cached_offer_is_served_until_expiry ==
    Cache =>
        /\ result.cached # None /\ result.now < result.cached[1].cache_expires_at =>
              LET served_data == get_cached_offers(result.table,
                                     result.cached[1].provider_name, result.now)
              IN  \E i \in 1..Len(served_data) :
                     served_data[i] = Some(result.cached[1].normalized_data)
        /\ \A i, j \in 1..Len(result.table) :
              /\ result.table[i].provider_name = result.table[j].provider_name
              /\ result.table[i].offer_id = result.table[j].offer_id
              => i = j

====
